---- MODULE Spec2Model ----
(***************************************************************************)
(* Model of the streaming-to-state reducer of frontend/src/lib/            *)
(* agent-store.ts: the conversation -> thread -> task -> item store, the   *)
(* item merge policy, the section projection, the step-template heuristic  *)
(* and the two reducer entry points.                                       *)
(*                                                                         *)
(* Strings are sequences of tokens.  A token is a word of text or one      *)
(* lexical unit of JSON, so that string concatenation is \o and            *)
(* JSON.stringify / JSON.parse are real conversions that can fail.         *)
(* The CJK literals of the source are written in ASCII (the parser of the  *)
(* model checker accepts ASCII only); each definition names its original.  *)
(***************************************************************************)
EXTENDS Integers, Sequences, FiniteSets, TLC

VARIABLES store, prev, calls

vars == <<store, prev, calls>>

----------------------------------------------------------------------------
(* Bounds of the model *)

\* number of reducer calls in one behaviour
MaxSteps == 3
\* longest payload content (in tokens) an event may produce
MaxContentLen == 24
\* number of reducer calls in one behaviour of SpecReasoning
MaxReasoningSteps == 5
\* number of reducer calls in one behaviour of SpecPlan
MaxPlanSteps == 4
\* number of reducer calls in one behaviour of SpecMerge
MaxMergeSteps == 3
\* number of reducer calls in one behaviour of SpecBatch
MaxBatchSteps == 4
\* number of reducer calls in one behaviour of SpecTools
MaxToolSteps == 4
\* number of calls of buildPlannedStepLabel in one behaviour of SpecLabel
MaxLabelCalls == 2
\* largest step ordinal handed to buildPlannedStepLabel in SpecLabel
MaxStepOrder == 8
\* number of reducer calls in one behaviour of SpecFrame
MaxFrameSteps == 4
\* number of reducer calls in one behaviour of SpecIsolation
MaxIsolationSteps == 4

----------------------------------------------------------------------------
(* Tokens *)

\* JSON lexical units
LBRACE == "{"
RBRACE == "}"
COMMA == ","
QUOTE == "\""
BACKSLASH == "\\"
JTRUE == "true"
JFALSE == "false"
JNULL == "null"
\* a key of an object, with its quotes and colon
KeyToken(k) == "\"" \o k \o "\":"
Keys == {"content", "isComplete", "tool_name", "step_label"}
KeyOf(tok) == CHOOSE k \in Keys : KeyToken(k) = tok
IsKeyToken(tok) == \E k \in Keys : KeyToken(k) = tok

\* the value undefined of the source (an absent property)
Undefined == "undefined"
\* a string-or-null value that is never the empty string (a label, a name,
\* a title) is a token sequence, and the empty one is null: the source
\* tests these values for truthiness only
NoString == <<>>

----------------------------------------------------------------------------
(* JSON.stringify and JSON.parse on flat objects *)

\* escaping of a string body: a quote and a backslash get a backslash
RECURSIVE Escape(_)
Escape(s) ==
  IF s = <<>> THEN <<>>
  ELSE IF Head(s) \in {QUOTE, BACKSLASH}
       THEN <<BACKSLASH, Head(s)>> \o Escape(Tail(s))
       ELSE <<Head(s)>> \o Escape(Tail(s))

\* a JSON string literal
StringifyString(s) == <<QUOTE>> \o Escape(s) \o <<QUOTE>>

\* an object is a sequence of fields [k, v] in property order; v is the
\* serialized value
RECURSIVE StringifyFields(_)
StringifyFields(obj) ==
  IF obj = <<>> THEN <<>>
  ELSE <<KeyToken(Head(obj).k)>> \o Head(obj).v
       \o (IF Tail(obj) = <<>> THEN <<>> ELSE <<COMMA>>)
       \o StringifyFields(Tail(obj))

JSONStringify(obj) == <<LBRACE>> \o StringifyFields(obj) \o <<RBRACE>>

\* index of the closing quote of the string literal opening at i, 0 if none
RECURSIVE StringEnd(_, _)
StringEnd(s, j) ==
  IF j > Len(s) THEN 0
  ELSE IF s[j] = QUOTE THEN j
  ELSE IF s[j] = BACKSLASH
       THEN (IF j + 1 > Len(s) \/ s[j + 1] \notin {QUOTE, BACKSLASH}
             THEN 0 ELSE StringEnd(s, j + 2))
       ELSE StringEnd(s, j + 1)

\* end index of the value starting at i, 0 if there is no value there
ValueEnd(s, i) ==
  IF i > Len(s) THEN 0
  ELSE IF s[i] \in {JTRUE, JFALSE, JNULL} THEN i
  ELSE IF s[i] = QUOTE THEN StringEnd(s, i + 1)
  ELSE 0

ParseFailure == [ok |-> FALSE, obj |-> <<>>]

\* fields from position i on; a later field of the same key wins
SetField(obj, key, val) ==
  IF \E j \in 1..Len(obj) : obj[j].k = key
  THEN [j \in 1..Len(obj) |->
          IF obj[j].k = key THEN [k |-> key, v |-> val] ELSE obj[j]]
  ELSE Append(obj, [k |-> key, v |-> val])

RECURSIVE ParseFields(_, _, _)
ParseFields(s, i, acc) ==
  IF i > Len(s) \/ ~IsKeyToken(s[i]) THEN ParseFailure
  ELSE LET e == ValueEnd(s, i + 1) IN
       IF e = 0 \/ e + 1 > Len(s) THEN ParseFailure
       ELSE LET acc2 == SetField(acc, KeyOf(s[i]), SubSeq(s, i + 1, e)) IN
            IF s[e + 1] = RBRACE
            THEN (IF e + 1 = Len(s) THEN [ok |-> TRUE, obj |-> acc2]
                  ELSE ParseFailure)
            ELSE IF s[e + 1] = COMMA THEN ParseFields(s, e + 2, acc2)
            ELSE ParseFailure

\* JSON.parse: ok is FALSE where the source would throw
JSONParse(s) ==
  IF Len(s) < 2 \/ s[1] # LBRACE THEN ParseFailure
  ELSE IF s[2] = RBRACE
       THEN (IF Len(s) = 2 THEN [ok |-> TRUE, obj |-> <<>>] ELSE ParseFailure)
       ELSE ParseFields(s, 2, <<>>)

HasField(obj, key) == \E j \in 1..Len(obj) : obj[j].k = key
\* the serialized value of a property, Undefined when absent
GetField(obj, key) ==
  IF HasField(obj, key)
  THEN obj[CHOOSE j \in 1..Len(obj) : obj[j].k = key].v
  ELSE <<Undefined>>

\* the body of a string literal
RECURSIVE Unescape(_)
Unescape(s) ==
  IF s = <<>> THEN <<>>
  ELSE IF Head(s) = BACKSLASH /\ Len(s) >= 2
       THEN <<s[2]>> \o Unescape(Tail(Tail(s)))
       ELSE <<Head(s)>> \o Unescape(Tail(s))

IsStringValue(v) == Len(v) >= 2 /\ v[1] = QUOTE
StringOf(v) == Unescape(SubSeq(v, 2, Len(v) - 1))

----------------------------------------------------------------------------
(* The store: conversation id -> conversation.  threads and sections are   *)
(* maps; the tasks of a thread are kept in property (insertion) order,     *)
(* which is the order Object.values walks them in.                         *)

EmptyMap == [x \in {} |-> <<>>]
MapPut(f, key, val) ==
  [x \in DOMAIN f \cup {key} |-> IF x = key THEN val ELSE f[x]]
MapRemove(f, key) == [x \in DOMAIN f \ {key} |-> f[x]]

EmptyStore == EmptyMap
EmptyConversation == [threads |-> EmptyMap, sections |-> EmptyMap]
EmptyThread == [tasks |-> <<>>]
EmptyTask(taskId) == [task_id |-> taskId, items |-> <<>>]

\* position of a task in a thread, 0 when absent
TaskIndex(thread, taskId) ==
  IF \E j \in 1..Len(thread.tasks) : thread.tasks[j].task_id = taskId
  THEN CHOOSE j \in 1..Len(thread.tasks) : thread.tasks[j].task_id = taskId
  ELSE 0
HasTask(thread, taskId) == TaskIndex(thread, taskId) # 0
\* mutant of GetTask: the first task of the thread, whatever the id
GetTask_First(thread, taskId) == thread.tasks[1]
GetTask(thread, taskId) == thread.tasks[TaskIndex(thread, taskId)]
\* mutant of PutTask: the task is written over every task of the thread
PutTask_Everywhere(thread, task) ==
  [tasks |-> [j \in 1..Len(thread.tasks) |-> task]]
PutTask(thread, task) ==
  [tasks |-> [j \in 1..Len(thread.tasks) |->
                IF thread.tasks[j].task_id = task.task_id THEN task
                ELSE thread.tasks[j]]]

\* mutant of EnsureTask: the task is created without the lookup
EnsureTask_AlwaysAppend(thread, taskId) ==
  [tasks |-> Append(thread.tasks, EmptyTask(taskId))]
\* thread.tasks[taskId] ??= { items: [] }
EnsureTask(thread, taskId) ==
  IF HasTask(thread, taskId) THEN thread
  ELSE [tasks |-> Append(thread.tasks, EmptyTask(taskId))]

\* conversation.threads[threadId] ??= { tasks: {} }, then the task
EnsureThread(conversation, threadId, taskId) ==
  LET thread == IF threadId \in DOMAIN conversation.threads
                THEN conversation.threads[threadId] ELSE EmptyThread
  IN [conversation EXCEPT
        !.threads = MapPut(@, threadId, EnsureTask(thread, taskId))]

\* ensurePath: the store with conversation, thread and task present
EnsurePath(st, data) ==
  LET conversation == IF data.conversation_id \in DOMAIN st
                      THEN st[data.conversation_id] ELSE EmptyConversation
  IN MapPut(st, data.conversation_id,
            EnsureThread(conversation, data.thread_id, data.task_id))

\* ensureSection: the conversation with sections[kind].tasks[taskId] present
EnsureSection(conversation, componentType, taskId) ==
  LET section == IF componentType \in DOMAIN conversation.sections
                 THEN conversation.sections[componentType] ELSE EmptyThread
  IN [conversation EXCEPT
        !.sections = MapPut(@, componentType, EnsureTask(section, taskId))]

\* hasContent: "content" in item.payload
HasContent(item) == item.payload.hasContent

\* findIndex by item_id, 0 when absent (the source's -1)
FindIndex(items, itemId) ==
  IF \E j \in 1..Len(items) : items[j].item_id = itemId
  THEN CHOOSE j \in 1..Len(items) :
         /\ items[j].item_id = itemId
         /\ \A h \in 1..(j - 1) : items[h].item_id # itemId
  ELSE 0

----------------------------------------------------------------------------
(* Targeted reasoning completion *)

ReasoningRecord(content, isComplete) ==
  <<[k |-> "content", v |-> content], [k |-> "isComplete", v |-> isComplete]>>

SetContent(item, content) ==
  [item EXCEPT !.payload.hasContent = TRUE, !.payload.content = content]

\* mutant of CompletedContent: content that does not parse is left as it is
CompletedContent_KeepsRaw(content) ==
  IF JSONParse(content).ok
  THEN JSONStringify(SetField(JSONParse(content).obj, "isComplete", <<JTRUE>>))
  ELSE content
\* the new content markReasoningComplete writes over content
CompletedContent(content) ==
  LET parsed == JSONParse(content) IN
  IF parsed.ok
  THEN JSONStringify(SetField(parsed.obj, "isComplete", <<JTRUE>>))
  ELSE JSONStringify(ReasoningRecord(StringifyString(content), <<JTRUE>>))

\* markReasoningComplete(task, itemId)
MarkReasoningComplete(task, itemId) ==
  LET existingIndex == FindIndex(task.items, itemId) IN
  IF existingIndex > 0 /\ HasContent(task.items[existingIndex])
  THEN [task EXCEPT !.items[existingIndex] =
          SetContent(@, CompletedContent(@.payload.content))]
  ELSE task

\* !value of a serialized value
IsFalsy(v) == v \in {<<Undefined>>, <<JFALSE>>, <<JNULL>>, <<QUOTE, QUOTE>>}

\* one round of the loop of markAllReasoningComplete
MarkAllOne(item) ==
  IF item.component_type = "reasoning" /\ HasContent(item)
  THEN LET parsed == JSONParse(item.payload.content) IN
       IF parsed.ok /\ IsFalsy(GetField(parsed.obj, "isComplete"))
       THEN SetContent(item,
              JSONStringify(SetField(parsed.obj, "isComplete", <<JTRUE>>)))
       ELSE item
  ELSE item

\* markAllReasoningComplete(task)
MarkAllReasoningComplete(task) ==
  [task EXCEPT !.items = [j \in 1..Len(@) |-> MarkAllOne(@[j])]]

----------------------------------------------------------------------------
(* Item merge policy *)

\* (parsed.content ?? "") as a string
ContentText(obj) ==
  LET v == GetField(obj, "content") IN
  IF v \in {<<Undefined>>, <<JNULL>>} THEN <<>>
  ELSE IF IsStringValue(v) THEN StringOf(v)
  ELSE v

\* parsed.isComplete ?? false
IsCompleteOrFalse(obj) ==
  LET v == GetField(obj, "isComplete") IN
  IF v \in {<<Undefined>>, <<JNULL>>} THEN <<JFALSE>> ELSE v

\* mutant of AppendContent: the new content goes in front
AppendContent_Prepend(existingItem, newItem) ==
  [existingItem EXCEPT
     !.payload.content = newItem.payload.content \o @]

\* event === "append": the new content goes behind the existing one
AppendContent(existingItem, newItem) ==
  SetContent(existingItem,
             existingItem.payload.content \o newItem.payload.content)

\* mutant of AppendReasoning: the new content goes in front
AppendReasoning_NewFirst(existingItem, newItem) ==
  IF JSONParse(existingItem.payload.content).ok
     /\ JSONParse(newItem.payload.content).ok
  THEN SetContent(existingItem,
         JSONStringify(ReasoningRecord(
           StringifyString(
             ContentText(JSONParse(newItem.payload.content).obj)
             \o ContentText(JSONParse(existingItem.payload.content).obj)),
           IsCompleteOrFalse(JSONParse(newItem.payload.content).obj))))
  ELSE newItem
\* mutant of AppendReasoning: the fallback is taken every time
AppendReasoning_AlwaysReplace(existingItem, newItem) == newItem

\* mutant of AppendReasoning: the merged record keeps the isComplete of the
\* existing one
AppendReasoning_KeepsComplete(existingItem, newItem) ==
  IF JSONParse(existingItem.payload.content).ok
     /\ JSONParse(newItem.payload.content).ok
  THEN SetContent(existingItem,
         JSONStringify(ReasoningRecord(
           StringifyString(
             ContentText(JSONParse(existingItem.payload.content).obj)
             \o ContentText(JSONParse(newItem.payload.content).obj)),
           IsCompleteOrFalse(JSONParse(existingItem.payload.content).obj))))
  ELSE newItem
\* event === "append-reasoning": merge of the two records, or replacement
AppendReasoning(existingItem, newItem) ==
  LET existingParsed == JSONParse(existingItem.payload.content)
      newParsed == JSONParse(newItem.payload.content)
  IN IF existingParsed.ok /\ newParsed.ok
     THEN SetContent(existingItem,
            JSONStringify(ReasoningRecord(
              StringifyString(ContentText(existingParsed.obj)
                              \o ContentText(newParsed.obj)),
              IsCompleteOrFalse(newParsed.obj))))
     ELSE newItem

\* what the item at existingIndex becomes
MergeItem(existingItem, newItem, event) ==
  IF event = "append" /\ HasContent(existingItem) /\ HasContent(newItem)
  THEN AppendContent(existingItem, newItem)
  ELSE IF event = "append-reasoning" /\ HasContent(existingItem)
          /\ HasContent(newItem)
  THEN AppendReasoning(existingItem, newItem)
  ELSE newItem

\* mutant of AddOrUpdateItem: a new item is put in front of the others
AddOrUpdateItem_PushFront(task, newItem, event) ==
  IF FindIndex(task.items, newItem.item_id) = 0
  THEN [task EXCEPT !.items = <<newItem>> \o @]
  ELSE [task EXCEPT !.items[FindIndex(task.items, newItem.item_id)] =
          MergeItem(@, newItem, event)]
\* mutant of AddOrUpdateItem: an item that exists is taken out and the
\* merged one is pushed at the end
AddOrUpdateItem_MoveToEnd(task, newItem, event) ==
  IF FindIndex(task.items, newItem.item_id) = 0
  THEN [task EXCEPT !.items = Append(@, newItem)]
  ELSE [task EXCEPT !.items =
          Append(SelectSeq(@, LAMBDA item : item.item_id # newItem.item_id),
                 MergeItem(task.items[FindIndex(task.items, newItem.item_id)],
                           newItem, event))]
\* mutant of AddOrUpdateItem: the item is pushed without the lookup
AddOrUpdateItem_AlwaysPush(task, newItem, event) ==
  [task EXCEPT !.items = Append(@, newItem)]

\* addOrUpdateItem(task, newItem, event)
AddOrUpdateItem(task, newItem, event) ==
  LET existingIndex == FindIndex(task.items, newItem.item_id) IN
  IF existingIndex = 0
  THEN [task EXCEPT !.items = Append(@, newItem)]
  ELSE [task EXCEPT !.items[existingIndex] = MergeItem(@, newItem, event)]

\* the section-worthy component kinds (constants/agent)
AGENT_SECTION_COMPONENT_TYPE == {"scheduled_task_result"}

\* whether handleChatItemEvent routes the item to a section
IsSectionItem(data) ==
  /\ data.component_type # Undefined
  /\ data.component_type \in AGENT_SECTION_COMPONENT_TYPE

\* addOrUpdateItem(sectionTask, data, event) on the section of the kind
WriteToSection(st, data, event) ==
  LET conv2 == EnsureSection(st[data.conversation_id], data.component_type,
                             data.task_id)
      section == conv2.sections[data.component_type]
      sectionTask == GetTask(section, data.task_id)
  IN MapPut(st, data.conversation_id,
       [conv2 EXCEPT !.sections[data.component_type] =
          PutTask(section, AddOrUpdateItem(sectionTask, data, event))])

\* addOrUpdateItem(task, data, event) on the task of the main tree
WriteToTask(st, data, event) ==
  LET conversation == st[data.conversation_id]
      thread == conversation.threads[data.thread_id]
      task == GetTask(thread, data.task_id)
  IN MapPut(st, data.conversation_id,
       [conversation EXCEPT !.threads[data.thread_id] =
          PutTask(thread, AddOrUpdateItem(task, data, event))])

\* mutant of HandleChatItemEvent: no return after the section is written
HandleChatItemEvent_NoReturn(st, data, event) ==
  LET st1 == EnsurePath(st, data) IN
  IF IsSectionItem(data)
  THEN WriteToTask(WriteToSection(st1, data, event), data, event)
  ELSE WriteToTask(st1, data, event)

\* handleChatItemEvent(draft, data, event)
HandleChatItemEvent(st, data, event) ==
  LET st1 == EnsurePath(st, data) IN
  IF IsSectionItem(data)
  THEN WriteToSection(st1, data, event)
  ELSE WriteToTask(st1, data, event)

----------------------------------------------------------------------------
(* Step-template heuristic *)

\* the titles, in order:
\* "构建分析策略任务规划", "基本面与财务健康度调研", "基本面与股基本面分析",
\* "多周期技术形态与筹码分布研究", "市场情绪与资金动态监控",
\* "实时资讯与重大事项搜寻"
ANALYSIS_STEP_TITLES ==
  <<"analysis_1_strategy_task_planning",
    "analysis_2_fundamentals_and_financial_health",
    "analysis_3_fundamentals_analysis",
    "analysis_4_technical_patterns_and_chip_distribution",
    "analysis_5_sentiment_and_fund_flows",
    "analysis_6_realtime_news_and_major_events">>

\* "构建分析策略"
ANALYSIS_OVERFLOW_STEP_TITLE == "analysis_overflow_strategy"

\* "检索今日全球科技重大新闻", "检索今日国内科技行业及 A 股科技板块动态",
\* "分析科技行业市场情绪与资金流向"
NEWS_STEP_TITLES ==
  <<"news_1_global_tech_news_today",
    "news_2_domestic_tech_and_ashare_tech_sector",
    "news_3_tech_sentiment_and_fund_flows">>

STEP_TEMPLATE_START_TITLES == {ANALYSIS_STEP_TITLES[1], NEWS_STEP_TITLES[1]}

PLAN_TOOL == "generate_execution_plan"
NEWS_TOOLS == {"web_search", "get_breaking_news", "get_financial_news"}
RESEARCH_TOOLS == {"fetch_ashare_filings", "fetch_us_filing_sections"}

\* the full-width brackets of the label
LBRACKET == "(("
RBRACKET == "))"

\* Words of text.  NameWords are runs of letters or CJK characters (two
\* characters or more); CODE is a bracketed 4-6 digit code such as
\* "(600519)"; SUFFIX is one of the company suffix words (it is made of
\* name characters too); NEWS is one of the news markers (CJK, so name
\* characters as well).  Every other token ends a run of name characters.
CODE == "(600519)"
SUFFIX == "Tech"
NEWSMARK == "News"
NameWords == {"foo", "bar", "Moutai", SUFFIX, NEWSMARK}

\* NEWS_QUERY_MARKER_REGEX.test(content)
NEWS_QUERY_MARKER_REGEX(content) ==
  \E j \in 1..Len(content) : content[j] = NEWSMARK

\* first position of the run of name words that ends at position i
RunStart(text, i) ==
  CHOOSE j \in 1..i :
    /\ \A h \in j..i : text[h] \in NameWords
    /\ (j = 1 \/ text[j - 1] \notin NameWords)

\* positions where the first pattern (name followed by a code) can end
WithCodeEnds(text) ==
  {i \in 2..Len(text) : text[i] = CODE /\ text[i - 1] \in NameWords}

\* positions where the second pattern (name ending in a suffix word) can end
CompanySuffixEnds(text) ==
  {i \in 2..Len(text) : text[i] = SUFFIX /\ text[i - 1] \in NameWords}

Min(S) == CHOOSE x \in S : \A y \in S : x <= y

\* extractCompanyNameFromText(text): the leftmost match of the first
\* pattern, else of the second, else null
ExtractCompanyNameFromText(text) ==
  IF text = <<>> THEN NoString
  ELSE IF WithCodeEnds(text) # {}
  THEN LET i == Min(WithCodeEnds(text))
       IN SubSeq(text, RunStart(text, i - 1), i - 1)
  ELSE IF CompanySuffixEnds(text) # {}
  THEN LET i == Min(CompanySuffixEnds(text))
       IN SubSeq(text, RunStart(text, i), i)
  ELSE NoString

\* getThreadItems: the items of all tasks, task after task
RECURSIVE FlattenTasks(_)
FlattenTasks(tasks) ==
  IF tasks = <<>> THEN <<>>
  ELSE Head(tasks).items \o FlattenTasks(Tail(tasks))

GetThreadItems(thread) == FlattenTasks(thread.tasks)

\* parsed[key] ?? "" of a parsed payload, as text
FieldText(obj, key) ==
  LET v == GetField(obj, key) IN
  IF v \in {<<Undefined>>, <<JNULL>>} THEN NoString
  ELSE IF IsStringValue(v) THEN StringOf(v)
  ELSE v

\* item.component_type !== "tool_call" || !hasContent(item)
IsToolCallWithContent(item) ==
  item.component_type = "tool_call" /\ HasContent(item)

\* getToolNameFromItem(item)
GetToolNameFromItem(item) ==
  IF ~IsToolCallWithContent(item) THEN NoString
  ELSE LET parsed == JSONParse(item.payload.content) IN
       IF parsed.ok THEN FieldText(parsed.obj, "tool_name") ELSE NoString

\* getStepLabelFromItem(item)
GetStepLabelFromItem(item) ==
  IF ~IsToolCallWithContent(item) THEN NoString
  ELSE LET parsed == JSONParse(item.payload.content) IN
       IF parsed.ok THEN FieldText(parsed.obj, "step_label") ELSE NoString

\* list.includes(text) for a list of one-token strings
Includes(list, text) == \E t \in list : text = <<t>>

\* isPlanningAnchorTool(item)
IsPlanningAnchorTool(item) ==
  IF ~IsToolCallWithContent(item) THEN FALSE
  ELSE LET parsed == JSONParse(item.payload.content) IN
       /\ parsed.ok
       /\ \/ FieldText(parsed.obj, "tool_name") = <<PLAN_TOOL>>
          \/ Includes(STEP_TEMPLATE_START_TITLES,
                      FieldText(parsed.obj, "step_label"))

IsToolCallItem(item) == item.component_type = "tool_call"

\* getPlanningToolItems(thread): the tool calls from the last anchor on
GetPlanningToolItems(thread) ==
  LET FromAnchor(allToolItems, anchors) ==
        IF anchors = {} THEN <<>>
        ELSE SubSeq(allToolItems,
                    CHOOSE i \in anchors : \A j \in anchors : j <= i,
                    Len(allToolItems))
      FromLastAnchor(allToolItems) ==
        FromAnchor(allToolItems,
                   {i \in 1..Len(allToolItems) :
                      IsPlanningAnchorTool(allToolItems[i])})
  IN FromLastAnchor(SelectSeq(GetThreadItems(thread), IsToolCallItem))

IsUserItemWithContent(item) == item.role = "user" /\ HasContent(item)

\* the contents of the user-authored items of the thread, in order
UserContents(thread) ==
  LET items == SelectSeq(GetThreadItems(thread), IsUserItemWithContent)
  IN [j \in 1..Len(items) |-> items[j].payload.content]

\* mutant of DetectStepTemplateInThread: a news tool decides, whatever the
\* research tools
DetectStepTemplateInThread_NewsToolWins(thread) ==
  IF \E j \in 1..Len(UserContents(thread)) :
       NEWS_QUERY_MARKER_REGEX(UserContents(thread)[j])
  THEN "news"
  ELSE IF \E j \in 1..Len(GetPlanningToolItems(thread)) :
            Includes(NEWS_TOOLS,
                     GetToolNameFromItem(GetPlanningToolItems(thread)[j]))
       THEN "news" ELSE "analysis"
\* detectStepTemplateInThread(thread)
DetectStepTemplateInThread(thread) ==
  LET ToolNames(planningToolItems) ==
        {GetToolNameFromItem(planningToolItems[j]) :
           j \in 1..Len(planningToolItems)} \ {NoString}
      ByTools(names) ==
        LET hasNewsTool == \E name \in names : Includes(NEWS_TOOLS, name)
            hasResearchTool ==
              \E name \in names : Includes(RESEARCH_TOOLS, name)
        IN IF hasNewsTool /\ ~hasResearchTool THEN "news" ELSE "analysis"
      ByQuery(userContents) ==
        \E j \in 1..Len(userContents) :
          NEWS_QUERY_MARKER_REGEX(userContents[j])
  IN IF ByQuery(UserContents(thread)) THEN "news"
     ELSE ByTools(ToolNames(GetPlanningToolItems(thread)))

\* detectCompanyNameInThread(thread, fallbackTaskTitle)
DetectCompanyNameInThread(thread, fallbackTaskTitle) ==
  LET FirstName(names, hits) ==
        IF hits # {} THEN names[Min(hits)]
        ELSE IF fallbackTaskTitle # NoString
        THEN ExtractCompanyNameFromText(fallbackTaskTitle)
        ELSE NoString
      NameIn(names) ==
        FirstName(names, {j \in 1..Len(names) : names[j] # NoString})
      NamesOf(userContents) ==
        [j \in 1..Len(userContents) |->
           ExtractCompanyNameFromText(userContents[j])]
  IN NameIn(NamesOf(UserContents(thread)))

\* the ordinal given to a tool call already in the run, or the next one
OrderInRun(threadToolItems, itemId) ==
  LET hits == {i \in 1..Len(threadToolItems) :
                 /\ threadToolItems[i].component_type = "tool_call"
                 /\ threadToolItems[i].item_id = itemId}
  IN IF hits # {} THEN Min(hits) ELSE Len(threadToolItems) + 1

\* mutant of GetToolStepOrderInThread: the item is not looked up in the run
GetToolStepOrderInThread_CountOnly(thread, itemId, currentToolName) ==
  IF Len(GetPlanningToolItems(thread)) = 0
  THEN (IF currentToolName = PLAN_TOOL THEN 1 ELSE 0)
  ELSE Len(GetPlanningToolItems(thread)) + 1
\* getToolStepOrderInThread(thread, itemId, currentToolName)
GetToolStepOrderInThread(thread, itemId, currentToolName) ==
  LET Order(threadToolItems) ==
        IF Len(threadToolItems) = 0
        THEN (IF currentToolName = PLAN_TOOL THEN 1 ELSE 0)
        ELSE OrderInRun(threadToolItems, itemId)
  IN Order(GetPlanningToolItems(thread))

\* templateTitles[stepOrder - 1] ?? overflow title or null
BaseTitle(stepOrder, templateType) ==
  LET templateTitles == IF templateType = "news" THEN NEWS_STEP_TITLES
                        ELSE ANALYSIS_STEP_TITLES
  IN IF stepOrder >= 1 /\ stepOrder <= Len(templateTitles)
     THEN <<templateTitles[stepOrder]>>
     ELSE IF templateType = "analysis" THEN <<ANALYSIS_OVERFLOW_STEP_TITLE>>
     ELSE NoString

\* mutant of BuildPlannedStepLabel: the subject is appended from the third
\* step on
BuildPlannedStepLabel_OffByOne(stepOrder, companyName, templateType) ==
  LET baseTitle == BaseTitle(stepOrder, templateType) IN
  IF baseTitle = NoString THEN NoString
  ELSE IF templateType = "analysis" /\ stepOrder > 2
          /\ companyName # NoString
  THEN baseTitle \o <<LBRACKET>> \o companyName \o <<RBRACKET>>
  ELSE baseTitle

\* mutant of BuildPlannedStepLabel: the subject is appended whatever the
\* template
BuildPlannedStepLabel_AnyTemplate(stepOrder, companyName, templateType) ==
  IF BaseTitle(stepOrder, templateType) = NoString THEN NoString
  ELSE IF stepOrder >= 2 /\ companyName # NoString
  THEN BaseTitle(stepOrder, templateType)
       \o <<LBRACKET>> \o companyName \o <<RBRACKET>>
  ELSE BaseTitle(stepOrder, templateType)
\* buildPlannedStepLabel(stepOrder, companyName, templateType)
BuildPlannedStepLabel(stepOrder, companyName, templateType) ==
  LET baseTitle == BaseTitle(stepOrder, templateType) IN
  IF baseTitle = NoString THEN NoString
  ELSE IF templateType = "analysis" /\ stepOrder >= 2
          /\ companyName # NoString
  THEN baseTitle \o <<LBRACKET>> \o companyName \o <<RBRACKET>>
  ELSE baseTitle

\* mutant of ShouldApplyAnalysisStepTemplate: the template applies to every
\* tool call
ShouldApplyAnalysisStepTemplate_Always(thread, currentToolName) == TRUE
\* shouldApplyAnalysisStepTemplate(thread, currentToolName)
ShouldApplyAnalysisStepTemplate(thread, currentToolName) ==
  IF currentToolName = PLAN_TOOL THEN TRUE
  ELSE LET FirstIs(firstToolName, firstStepLabel) ==
             \/ firstToolName = <<PLAN_TOOL>>
             \/ Includes(STEP_TEMPLATE_START_TITLES, firstToolName)
             \/ Includes(STEP_TEMPLATE_START_TITLES, firstStepLabel)
           Applies(planningItems) ==
             IF planningItems = <<>> THEN FALSE
             ELSE FirstIs(GetToolNameFromItem(planningItems[1]),
                          GetStepLabelFromItem(planningItems[1]))
       IN Applies(GetPlanningToolItems(thread))

\* the step_label of a tool-call event, read off the thread before the write
PlannedStepLabel(thread, data) ==
  LET templateType == DetectStepTemplateInThread(thread)
      shouldApplyTemplate ==
        ShouldApplyAnalysisStepTemplate(thread, data.payload.tool_name)
      stepOrder == GetToolStepOrderInThread(thread, data.item_id,
                                            data.payload.tool_name)
      companyName == DetectCompanyNameInThread(thread,
                                               data.metadata.task_title)
  IN IF shouldApplyTemplate
     THEN BuildPlannedStepLabel(stepOrder, companyName, templateType)
     ELSE NoString

----------------------------------------------------------------------------
(* Event processor *)

\* a payload that holds content only
ContentPayload(content) ==
  [hasContent |-> TRUE, content |-> content,
   component_type |-> Undefined, tool_name |-> Undefined]

\* { component_type, ...data } with the given payload
MakeItem(data, componentType, payload) ==
  [item_id |-> data.item_id,
   conversation_id |-> data.conversation_id,
   thread_id |-> data.thread_id,
   task_id |-> data.task_id,
   component_type |-> componentType,
   role |-> data.role,
   payload |-> payload,
   metadata |-> data.metadata]

REPLACE_COMPONENT_TYPES == {"scheduled_task_result", "subagent_conversation"}

\* mutant of ComponentGeneratorEvent: every kind is merged in append mode
ComponentGeneratorEvent_AlwaysAppend(st, data) ==
  HandleChatItemEvent(st,
    MakeItem(data, data.payload.component_type, data.payload), "append")
\* case "component_generator"
ComponentGeneratorEvent(st, data) ==
  HandleChatItemEvent(st,
    MakeItem(data, data.payload.component_type, data.payload),
    IF data.payload.component_type \in REPLACE_COMPONENT_TYPES
    THEN "replace" ELSE "append")

MARKDOWN_EVENTS ==
  {"thread_started", "message_chunk", "message", "task_failed",
   "plan_failed", "plan_require_user_input"}

\* case "thread_started" ... "plan_require_user_input"
MarkdownEvent(st, data) ==
  HandleChatItemEvent(st, MakeItem(data, "markdown", data.payload), "append")

\* JSON.stringify({ content: data.payload.content, isComplete: false })
ReasoningChunkContent(payload) ==
  JSONStringify(
    (IF payload.hasContent
     THEN <<[k |-> "content", v |-> StringifyString(payload.content)]>>
     ELSE <<>>)
    \o <<[k |-> "isComplete", v |-> <<JFALSE>>]>>)

\* case "reasoning"
ReasoningEvent(st, data) ==
  HandleChatItemEvent(st,
    MakeItem(data, "reasoning",
             ContentPayload(ReasoningChunkContent(data.payload))),
    "append-reasoning")

\* mutant of ReasoningStartedEvent: the placeholder is merged as a chunk
ReasoningStartedEvent_AppendReasoning(st, data) ==
  HandleChatItemEvent(st,
    MakeItem(data, "reasoning",
             ContentPayload(JSONStringify(
               ReasoningRecord(StringifyString(<<>>), <<JFALSE>>)))),
    "append-reasoning")
\* case "reasoning_started"
ReasoningStartedEvent(st, data) ==
  HandleChatItemEvent(st,
    MakeItem(data, "reasoning",
             ContentPayload(JSONStringify(
               ReasoningRecord(StringifyString(<<>>), <<JFALSE>>)))),
    "replace")

\* mutant of ReasoningCompletedEvent: a completed record goes through the
\* merge of handleChatItemEvent
ReasoningCompletedEvent_Upsert(st, data) ==
  HandleChatItemEvent(st,
    MakeItem(data, "reasoning",
             ContentPayload(JSONStringify(
               ReasoningRecord(StringifyString(<<>>), <<JTRUE>>)))),
    "replace")
\* case "reasoning_completed"
ReasoningCompletedEvent(st, data) ==
  LET st1 == EnsurePath(st, data)
      conversation == st1[data.conversation_id]
      thread == conversation.threads[data.thread_id]
      task == GetTask(thread, data.task_id)
  IN MapPut(st1, data.conversation_id,
       [conversation EXCEPT !.threads[data.thread_id] =
          PutTask(thread, MarkReasoningComplete(task, data.item_id))])

\* JSON.stringify({ ...data.payload, step_label: plannedStepLabel })
ToolCallContent(payload, plannedStepLabel) ==
  JSONStringify(
    (IF payload.hasContent
     THEN <<[k |-> "content", v |-> StringifyString(payload.content)]>>
     ELSE <<>>)
    \o (IF payload.tool_name # Undefined
        THEN <<[k |-> "tool_name",
                v |-> StringifyString(<<payload.tool_name>>)]>>
        ELSE <<>>)
    \o <<[k |-> "step_label",
          v |-> IF plannedStepLabel = NoString THEN <<JNULL>>
                ELSE StringifyString(plannedStepLabel)]>>)

\* mutant of ToolCallEvent: the label is read off the thread that holds the
\* item of the event already
ToolCallEvent_LabelAfterWrite(st, data) ==
  HandleChatItemEvent(st,
    MakeItem(data, "tool_call",
             ContentPayload(ToolCallContent(data.payload,
               PlannedStepLabel(
                 HandleChatItemEvent(st,
                   MakeItem(data, "tool_call",
                            ContentPayload(ToolCallContent(data.payload,
                                                           NoString))),
                   "replace")[data.conversation_id].threads[data.thread_id],
                 data)))),
    "replace")
\* the tasks of the threads ids of a conversation, thread after thread
RECURSIVE TasksOfThreads(_, _)
TasksOfThreads(threads, ids) ==
  IF ids = {} THEN <<>>
  ELSE threads[CHOOSE t \in ids : TRUE].tasks
       \o TasksOfThreads(threads, ids \ {CHOOSE t \in ids : TRUE})

\* mutant of ToolCallEvent: the heuristic reads the items of every thread
\* of the conversation
ToolCallEvent_WholeConversation(st, data) ==
  HandleChatItemEvent(EnsurePath(st, data),
    MakeItem(data, "tool_call",
             ContentPayload(ToolCallContent(data.payload,
               PlannedStepLabel(
                 [tasks |-> TasksOfThreads(
                    EnsurePath(st, data)[data.conversation_id].threads,
                    DOMAIN EnsurePath(st, data)[data.conversation_id].threads)],
                 data)))),
    "replace")
\* case "tool_call_started", "tool_call_completed"
ToolCallEvent(st, data) ==
  LET st1 == EnsurePath(st, data)
      thread == st1[data.conversation_id].threads[data.thread_id]
  IN HandleChatItemEvent(st1,
       MakeItem(data, "tool_call",
                ContentPayload(ToolCallContent(data.payload,
                                 PlannedStepLabel(thread, data)))),
       "replace")

\* mutant of UnknownEvent: the path of the event is created all the same
UnknownEvent_EnsuresPath(st, data) == EnsurePath(st, data)

\* default: break
UnknownEvent(st, data) == st

\* processSSEEvent(draft, sseData)
ProcessSSEEvent(st, sseData) ==
  LET data == sseData.data IN
  CASE sseData.event = "component_generator" ->
         ComponentGeneratorEvent(st, data)
    [] sseData.event \in MARKDOWN_EVENTS -> MarkdownEvent(st, data)
    [] sseData.event = "reasoning" -> ReasoningEvent(st, data)
    [] sseData.event = "reasoning_started" -> ReasoningStartedEvent(st, data)
    [] sseData.event = "reasoning_completed" ->
         ReasoningCompletedEvent(st, data)
    [] sseData.event \in {"tool_call_started", "tool_call_completed"} ->
         ToolCallEvent(st, data)
    [] OTHER -> UnknownEvent(st, data)

----------------------------------------------------------------------------
(* Reducer entry points *)

\* updateAgentConversationsStore(store, sseData)
UpdateAgentConversationsStore(st, sseData) == ProcessSSEEvent(st, sseData)

\* mutant of ClearConversation: the conversation is kept
ClearConversation_Never(st, conversationId, clearHistory) == st

\* if (clearHistory && draft[conversationId]) delete draft[conversationId]
ClearConversation(st, conversationId, clearHistory) ==
  IF clearHistory /\ conversationId \in DOMAIN st
  THEN MapRemove(st, conversationId)
  ELSE st

\* mutant of ProcessAll: the list is walked from its end
RECURSIVE ProcessAll_Reversed(_, _)
ProcessAll_Reversed(st, sseDataList) ==
  IF sseDataList = <<>> THEN st
  ELSE ProcessSSEEvent(ProcessAll_Reversed(st, Tail(sseDataList)),
                       Head(sseDataList))
\* for (const sseData of sseDataList) processSSEEvent(draft, sseData)
RECURSIVE ProcessAll(_, _)
ProcessAll(st, sseDataList) ==
  IF sseDataList = <<>> THEN st
  ELSE ProcessAll(ProcessSSEEvent(st, Head(sseDataList)), Tail(sseDataList))

\* markAllReasoningComplete over every task of every thread
CompleteThread(thread) ==
  [tasks |-> [j \in 1..Len(thread.tasks) |->
                MarkAllReasoningComplete(thread.tasks[j])]]

\* mutant of CompleteConversation: the reasoning items of every
\* conversation are completed
CompleteConversation_Everywhere(st, conversationId) ==
  [c \in DOMAIN st |->
     [st[c] EXCEPT !.threads = [t \in DOMAIN @ |-> CompleteThread(@[t])]]]
CompleteConversation(st, conversationId) ==
  IF conversationId \in DOMAIN st
  THEN [st EXCEPT ![conversationId].threads =
          [t \in DOMAIN @ |-> CompleteThread(@[t])]]
  ELSE st

\* batchUpdateAgentConversationsStore(store, conversationId, sseDataList,
\*                                    clearHistory)
BatchUpdateAgentConversationsStore(st, conversationId, sseDataList, clearHistory) ==
  CompleteConversation(
    ProcessAll(ClearConversation(st, conversationId, clearHistory),
               sseDataList),
    conversationId)

----------------------------------------------------------------------------
(* Events the model feeds the reducer *)

Metadata(taskTitle) == [task_title |-> taskTitle]

Data(c, t, k, i, role, payload, taskTitle) ==
  [conversation_id |-> c, thread_id |-> t, task_id |-> k, item_id |-> i,
   role |-> role, payload |-> payload, metadata |-> Metadata(taskTitle)]

SSE(event, data) == [event |-> event, data |-> data]

NoContentPayload ==
  [hasContent |-> FALSE, content |-> <<>>,
   component_type |-> Undefined, tool_name |-> Undefined]
ComponentPayload(componentType, content) ==
  [hasContent |-> TRUE, content |-> content,
   component_type |-> componentType, tool_name |-> Undefined]
ToolPayload(toolName) ==
  [hasContent |-> FALSE, content |-> <<>>,
   component_type |-> Undefined, tool_name |-> toolName]

\* an event of an address <<c, t, k, i>>
At(a, event, role, payload) ==
  SSE(event, Data(a[1], a[2], a[3], a[4], role, payload, NoString))

\* every item of the main tree, with the place it is found at
MainEntries(st) ==
  UNION {UNION {UNION {
    {[conversation_id |-> c, thread_id |-> t,
      task_id |-> st[c].threads[t].tasks[j].task_id, pos |-> p,
      item |-> st[c].threads[t].tasks[j].items[p]] :
        p \in 1..Len(st[c].threads[t].tasks[j].items)} :
      j \in 1..Len(st[c].threads[t].tasks)} :
    t \in DOMAIN st[c].threads} :
  c \in DOMAIN st}

\* every item of the sections, with the place it is found at
SectionEntries(st) ==
  UNION {UNION {UNION {
    {[conversation_id |-> c, kind |-> s,
      task_id |-> st[c].sections[s].tasks[j].task_id, pos |-> p,
      item |-> st[c].sections[s].tasks[j].items[p]] :
        p \in 1..Len(st[c].sections[s].tasks[j].items)} :
      j \in 1..Len(st[c].sections[s].tasks)} :
    s \in DOMAIN st[c].sections} :
  c \in DOMAIN st}

AllItems(st) ==
  {e.item : e \in MainEntries(st)} \cup {e.item : e \in SectionEntries(st)}

\* the bound on the length of contents
ContentsWithin(st) ==
  \A item \in AllItems(st) : Len(item.payload.content) <= MaxContentLen

----------------------------------------------------------------------------
(* The reducer as a state machine: the caller holds the snapshot in store   *)
(* and replaces it by the result of each call.  calls is the history of    *)
(* the calls made (their arguments but the store), prev the store the last *)
(* call was given.                                                         *)

UpdateCall(sseData) ==
  [op |-> "update", conversationId |-> sseData.data.conversation_id,
   sseDataList |-> <<sseData>>, clearHistory |-> FALSE]

BatchCall(conversationId, sseDataList, clearHistory) ==
  [op |-> "batch", conversationId |-> conversationId,
   sseDataList |-> sseDataList, clearHistory |-> clearHistory]

\* store = updateAgentConversationsStore(store, sseData), sseData from E
Update(E, max) ==
  /\ Len(calls) < max
  /\ \E sseData \in E :
       /\ store' = UpdateAgentConversationsStore(store, sseData)
       /\ ContentsWithin(store')
       /\ prev' = store
       /\ calls' = Append(calls, UpdateCall(sseData))

\* store = batchUpdateAgentConversationsStore(store, c, list, clearHistory),
\* the list from L and c from C
Batch(L, C, max) ==
  /\ Len(calls) < max
  /\ \E conversationId \in C, clearHistory \in BOOLEAN, sseDataList \in L :
       /\ store' = BatchUpdateAgentConversationsStore(
                      store, conversationId, sseDataList, clearHistory)
       /\ ContentsWithin(store')
       /\ prev' = store
       /\ calls' = Append(calls,
                          BatchCall(conversationId, sseDataList, clearHistory))

Init ==
  /\ store = EmptyStore
  /\ prev = EmptyStore
  /\ calls = <<>>

\* addresses <<conversation, thread, task, item>>
A1 == <<"c1", "t1", "k1", "i1">>
A2 == <<"c1", "t1", "k1", "i2">>
A3 == <<"c1", "t2", "k1", "i1">>
A4 == <<"c1", "t1", "k2", "i1">>
A5 == <<"c2", "t1", "k1", "i1">>

\* the events of Spec: every kind, on items that share ids, tasks and threads
Events ==
  {At(A1, "message_chunk", "user", ContentPayload(<<"foo">>)),
   At(A1, "message_chunk", "agent", ContentPayload(<<"bar">>)),
   At(A1, "message", "agent", NoContentPayload),
   At(A1, "reasoning_started", "agent", NoContentPayload),
   At(A1, "reasoning", "agent", ContentPayload(<<"foo">>)),
   At(A1, "reasoning_completed", "agent", NoContentPayload),
   At(A1, "component_generator", "agent",
      ComponentPayload("reasoning", <<"foo">>)),
   At(A1, "component_generator", "agent",
      ComponentPayload("scheduled_task_result", <<"foo">>)),
   At(A1, "component_generator", "agent",
      ComponentPayload("subagent_conversation", <<"bar">>)),
   At(A1, "tool_call_started", "agent", ToolPayload(PLAN_TOOL)),
   At(A1, "done", "agent", NoContentPayload),
   At(A2, "message_chunk", "agent", ContentPayload(<<"foo">>)),
   At(A2, "reasoning", "agent", ContentPayload(<<"bar">>)),
   At(A2, "component_generator", "agent",
      ComponentPayload("scheduled_task_result", <<"bar">>)),
   At(A3, "message", "user", ContentPayload(<<"foo">>)),
   At(A3, "reasoning_started", "agent", NoContentPayload),
   At(A3, "component_generator", "agent",
      ComponentPayload("scheduled_task_result", <<"foo">>)),
   At(A4, "thread_started", "agent", ContentPayload(<<"foo">>)),
   At(A4, "component_generator", "agent",
      ComponentPayload("report", <<"bar">>)),
   At(A5, "task_failed", "agent", ContentPayload(<<"foo">>)),
   At(A5, "plan_failed", "agent", ContentPayload(<<"bar">>)),
   At(A5, "plan_require_user_input", "agent", ContentPayload(<<"foo">>))}

\* the event lists a batch of Spec replays
BatchLists ==
  {<<>>,
   <<At(A1, "reasoning", "agent", ContentPayload(<<"foo">>))>>,
   <<At(A1, "message_chunk", "agent", ContentPayload(<<"bar">>)),
     At(A5, "reasoning_started", "agent", NoContentPayload)>>,
   <<At(A1, "reasoning_started", "agent", NoContentPayload),
     At(A1, "reasoning", "agent", ContentPayload(<<"foo">>))>>}

Next == Update(Events, MaxSteps) \/ Batch(BatchLists, {"c1"}, MaxSteps)

Spec == Init /\ [][Next]_vars

----------------------------------------------------------------------------
(* SpecReasoning: the life of a reasoning item, one event at a time *)

ReasoningEvents ==
  {At(A1, "reasoning_started", "agent", NoContentPayload),
   At(A1, "reasoning", "agent", ContentPayload(<<"foo">>)),
   At(A1, "reasoning", "agent", ContentPayload(<<"bar">>)),
   At(A1, "reasoning_completed", "agent", NoContentPayload),
   At(A1, "message_chunk", "agent", ContentPayload(<<"foo">>)),
   At(A2, "reasoning_started", "agent", NoContentPayload)}

NextReasoning == Update(ReasoningEvents, MaxReasoningSteps)

SpecReasoning == Init /\ [][NextReasoning]_vars

----------------------------------------------------------------------------
(* SpecPlan: user messages and tool calls of one thread *)

\* an event of thread t1 of conversation c1
InThread(k, i, event, role, payload, taskTitle) ==
  SSE(event, Data("c1", "t1", k, i, role, payload, taskTitle))

PlanEvents ==
  {InThread("k1", "u1", "message", "user",
            ContentPayload(<<"foo", "Moutai", CODE>>), NoString),
   InThread("k2", "u2", "message", "user",
            ContentPayload(<<"bar", SUFFIX>>), NoString),
   InThread("k1", "u1", "message_chunk", "user",
            ContentPayload(<<NEWSMARK>>), NoString),
   InThread("k1", "x1", "tool_call_started", "agent",
            ToolPayload(PLAN_TOOL), NoString),
   InThread("k1", "x1", "tool_call_completed", "agent",
            ToolPayload(PLAN_TOOL), NoString),
   InThread("k1", "x2", "tool_call_started", "agent",
            ToolPayload("web_search"), NoString),
   InThread("k1", "x2", "tool_call_completed", "agent",
            ToolPayload("web_search"), NoString),
   InThread("k2", "x3", "tool_call_started", "agent",
            ToolPayload("fetch_ashare_filings"), <<"Moutai", SUFFIX>>),
   InThread("k2", "x1", "tool_call_started", "agent",
            ToolPayload("get_stock_price"), NoString)}

NextPlan == Update(PlanEvents, MaxPlanSteps)

SpecPlan == Init /\ [][NextPlan]_vars

----------------------------------------------------------------------------
(* SpecMerge: every merge mode on two items of one task, next to a second  *)
(* task, a second thread and a second conversation                         *)

MergeEvents ==
  {At(A1, "reasoning_started", "agent", NoContentPayload),
   At(A1, "reasoning", "agent", ContentPayload(<<"foo">>)),
   At(A1, "reasoning_completed", "agent", NoContentPayload),
   At(A1, "message_chunk", "agent", ContentPayload(<<"bar">>)),
   At(A1, "tool_call_started", "agent", ToolPayload(PLAN_TOOL)),
   At(A1, "component_generator", "agent",
      ComponentPayload("scheduled_task_result", <<"foo">>)),
   At(A1, "component_generator", "agent",
      ComponentPayload("subagent_conversation", <<"bar">>)),
   At(A1, "component_generator", "agent",
      ComponentPayload("report", <<"foo">>)),
   At(A2, "tool_call_started", "agent", ToolPayload("web_search")),
   At(A2, "message", "user", ContentPayload(<<"foo">>)),
   At(A1, "reasoning", "agent", ContentPayload(<<"bar">>)),
   At(A2, "reasoning", "agent", NoContentPayload),
   At(A2, "reasoning_completed", "agent", NoContentPayload),
   At(A3, "message_chunk", "agent", ContentPayload(<<"foo">>)),
   At(A4, "reasoning_started", "agent", NoContentPayload),
   At(A5, "message", "agent", ContentPayload(<<"foo">>))}

NextMerge == Update(MergeEvents, MaxMergeSteps)

SpecMerge == Init /\ [][NextMerge]_vars

----------------------------------------------------------------------------
(* SpecBatch: single events and batches of conversation c1 *)

BatchEvents ==
  {At(A1, "reasoning_started", "agent", NoContentPayload),
   At(A1, "reasoning", "agent", ContentPayload(<<"foo">>)),
   At(A1, "message_chunk", "agent", ContentPayload(<<"bar">>)),
   At(A4, "reasoning", "agent", ContentPayload(<<"bar">>)),
   At(A5, "reasoning", "agent", ContentPayload(<<"foo">>))}

\* the lists replayed: none, and one whose events meet no path of theirs
ReplayLists ==
  {<<>>,
   <<At(A3, "reasoning", "agent", ContentPayload(<<"foo">>)),
     At(A1, "message_chunk", "agent", ContentPayload(<<"foo">>)),
     At(A3, "reasoning", "agent", ContentPayload(<<"bar">>))>>}

NextBatch ==
  Update(BatchEvents, MaxBatchSteps) \/ Batch(ReplayLists, {"c1"}, MaxBatchSteps)

SpecBatch == Init /\ [][NextBatch]_vars

----------------------------------------------------------------------------
(* SpecTools: the tool calls of one thread, spread over two tasks *)

ToolEvents ==
  {InThread("k1", "u1", "message", "user",
            ContentPayload(<<"foo", "Moutai", CODE>>), NoString),
   InThread("k2", "u2", "message", "user",
            ContentPayload(<<NEWSMARK>>), NoString),
   InThread("k1", "x1", "tool_call_started", "agent",
            ToolPayload(PLAN_TOOL), NoString),
   InThread("k1", "x1", "tool_call_completed", "agent",
            ToolPayload(PLAN_TOOL), NoString),
   InThread("k1", "x2", "tool_call_started", "agent",
            ToolPayload("web_search"), NoString),
   InThread("k1", "x5", "tool_call_started", "agent",
            ToolPayload("get_breaking_news"), NoString),
   InThread("k2", "x3", "tool_call_started", "agent",
            ToolPayload("fetch_ashare_filings"), NoString),
   InThread("k2", "x4", "tool_call_started", "agent",
            ToolPayload(PLAN_TOOL), NoString),
   InThread("k2", "x1", "tool_call_started", "agent",
            ToolPayload("get_stock_price"), NoString)}

NextTools == Update(ToolEvents, MaxToolSteps)

SpecTools == Init /\ [][NextTools]_vars

----------------------------------------------------------------------------
(* SpecLabel: buildPlannedStepLabel on its own; calls keeps the arguments  *)
(* and the result of each call, the store is not touched                   *)

CompanyNames == {NoString, <<"Moutai">>, <<"foo", "Moutai">>}

LabelCall(stepOrder, companyName, templateType) ==
  [op |-> "buildPlannedStepLabel", stepOrder |-> stepOrder,
   companyName |-> companyName, templateType |-> templateType,
   result |-> BuildPlannedStepLabel(stepOrder, companyName, templateType)]

BuildLabel ==
  /\ Len(calls) < MaxLabelCalls
  /\ \E stepOrder \in 0..MaxStepOrder, companyName \in CompanyNames,
        templateType \in {"analysis", "news"} :
       calls' = Append(calls, LabelCall(stepOrder, companyName, templateType))
  /\ UNCHANGED <<store, prev>>

NextLabel == BuildLabel

SpecLabel == Init /\ [][NextLabel]_vars

----------------------------------------------------------------------------
(* SpecFrame: batches of conversation c1 whose events address c2 as well,  *)
(* next to a conversation c3 no batch addresses                            *)

A6 == <<"c3", "t1", "k1", "i1">>
A7 == <<"c2", "t2", "k1", "i1">>

FrameEvents ==
  {At(A1, "reasoning", "agent", ContentPayload(<<"foo">>)),
   At(A5, "reasoning", "agent", ContentPayload(<<"foo">>)),
   At(A6, "reasoning", "agent", ContentPayload(<<"foo">>))}

FrameLists ==
  {<<>>,
   <<At(A5, "reasoning", "agent", ContentPayload(<<"bar">>)),
     At(A1, "message_chunk", "agent", ContentPayload(<<"foo">>)),
     At(A7, "reasoning_started", "agent", NoContentPayload)>>}

NextFrame ==
  Update(FrameEvents, MaxFrameSteps) \/ Batch(FrameLists, {"c1"}, MaxFrameSteps)

SpecFrame == Init /\ [][NextFrame]_vars

----------------------------------------------------------------------------
(* SpecIsolation: tool calls and user messages of thread t1 of c1, of a    *)
(* second thread of c1 and of a second conversation                       *)

IsolationEvents ==
  {SSE("message", Data("c1", "t1", "k1", "u1", "user",
                       ContentPayload(<<"foo", "Moutai", CODE>>), NoString)),
   SSE("tool_call_started", Data("c1", "t1", "k1", "x1", "agent",
                                 ToolPayload(PLAN_TOOL), NoString)),
   SSE("tool_call_started", Data("c1", "t1", "k1", "x2", "agent",
                                 ToolPayload("web_search"),
                                 <<"Moutai", SUFFIX>>)),
   SSE("message", Data("c1", "t2", "k1", "u1", "user",
                       ContentPayload(<<NEWSMARK>>), NoString)),
   SSE("tool_call_started", Data("c1", "t2", "k1", "x1", "agent",
                                 ToolPayload(PLAN_TOOL), NoString)),
   SSE("message", Data("c2", "t1", "k1", "u1", "user",
                       ContentPayload(<<"bar", SUFFIX>>), NoString)),
   SSE("tool_call_started", Data("c2", "t1", "k1", "x3", "agent",
                                 ToolPayload(PLAN_TOOL), NoString))}

NextIsolation == Update(IsolationEvents, MaxIsolationSteps)

SpecIsolation == Init /\ [][NextIsolation]_vars

----------------------------------------------------------------------------
(* Reading the history and the store in the properties *)

Called == Len(calls) > 0
LastCall == calls[Len(calls)]
IsUpdate == Called /\ LastCall.op = "update"
IsBatch == Called /\ LastCall.op = "batch"
\* the event of the last call, an update
LastEvent == LastCall.sseDataList[1]

CONSUMED_EVENTS ==
  {"component_generator", "reasoning", "reasoning_started",
   "reasoning_completed", "tool_call_started", "tool_call_completed"}
  \cup MARKDOWN_EVENTS

\* the items of threads[t].tasks[k] of conversation c, none when absent
ItemsAt(st, c, t, k) ==
  IF /\ c \in DOMAIN st
     /\ t \in DOMAIN st[c].threads
     /\ \E j \in 1..Len(st[c].threads[t].tasks) :
          st[c].threads[t].tasks[j].task_id = k
  THEN LET tasks == st[c].threads[t].tasks
       IN tasks[CHOOSE j \in 1..Len(tasks) : tasks[j].task_id = k].items
  ELSE <<>>

\* the items of sections[kind].tasks[k] of conversation c, none when absent
SectionItemsAt(st, c, kind, k) ==
  IF /\ c \in DOMAIN st
     /\ kind \in DOMAIN st[c].sections
     /\ \E j \in 1..Len(st[c].sections[kind].tasks) :
          st[c].sections[kind].tasks[j].task_id = k
  THEN LET tasks == st[c].sections[kind].tasks
       IN tasks[CHOOSE j \in 1..Len(tasks) : tasks[j].task_id = k].items
  ELSE <<>>

\* the positions of an item_id in a sequence of items
PositionsOf(items, itemId) ==
  {p \in 1..Len(items) : items[p].item_id = itemId}

\* the items of the task the last event addressed, before the call
PrevItemsOfEvent ==
  ItemsAt(prev, LastEvent.data.conversation_id, LastEvent.data.thread_id,
          LastEvent.data.task_id)
\* and after it
ItemsOfEvent ==
  ItemsAt(store, LastEvent.data.conversation_id, LastEvent.data.thread_id,
          LastEvent.data.task_id)

----------------------------------------------------------------------------
(* C1 *)

\* C1: in every reachable store no task, in the threads or in the sections,
\* holds two items with the same item_id.
C1_NoDuplicateItemId ==
  /\ \A e1, e2 \in MainEntries(store) :
       (/\ e1.conversation_id = e2.conversation_id
        /\ e1.thread_id = e2.thread_id
        /\ e1.task_id = e2.task_id
        /\ e1.item.item_id = e2.item.item_id) => e1.pos = e2.pos
  /\ \A e1, e2 \in SectionEntries(store) :
       (/\ e1.conversation_id = e2.conversation_id
        /\ e1.kind = e2.kind
        /\ e1.task_id = e2.task_id
        /\ e1.item.item_id = e2.item.item_id) => e1.pos = e2.pos

\* an event was merged onto an item_id its task already held, in a task of
\* two items
C1_Witness ==
  /\ IsUpdate
  /\ LastEvent.event \in CONSUMED_EVENTS \ {"reasoning_completed"}
  /\ PositionsOf(PrevItemsOfEvent, LastEvent.data.item_id) # {}
  /\ Len(ItemsOfEvent) = 2

----------------------------------------------------------------------------
(* C2 *)

\* C2: every item found under threads[t].tasks[k] carries thread_id t and
\* task_id k.
C2_ItemAddressMatchesPath ==
  \A e \in MainEntries(store) :
    e.item.thread_id = e.thread_id /\ e.item.task_id = e.task_id

\* an event was merged (append or replace) onto an existing item while its
\* conversation holds a second thread or its thread a second task
C2_Witness ==
  /\ IsUpdate
  /\ LastEvent.event \in MARKDOWN_EVENTS \cup {"reasoning_started"}
  /\ PositionsOf(PrevItemsOfEvent, LastEvent.data.item_id) # {}
  /\ LET conversation == store[LastEvent.data.conversation_id]
     IN \/ Cardinality(DOMAIN conversation.threads) >= 2
        \/ Len(conversation.threads[LastEvent.data.thread_id].tasks) >= 2

----------------------------------------------------------------------------
(* C3 *)

\* a serialized { content: string, isComplete: boolean } record
IsReasoningRecord(content) ==
  \E text \in {StringOf(SubSeq(content, 3, Len(content) - 4))},
     done \in {JTRUE, JFALSE} :
    /\ Len(content) >= 7
    /\ content = <<LBRACE, KeyToken("content")>> \o StringifyString(text)
                 \o <<COMMA, KeyToken("isComplete"), done, RBRACE>>

\* C3: the payload content of every reasoning-kind item of the store is a
\* serialized { content, isComplete } record.
C3_ReasoningContentIsRecord ==
  \A item \in AllItems(store) :
    item.component_type = "reasoning" =>
      HasContent(item) /\ IsReasoningRecord(item.payload.content)

----------------------------------------------------------------------------
(* C4 *)

\* the events merged in append mode: the markdown kinds and the generated
\* components other than the two replaced ones
IsAppendEvent(sseData) ==
  \/ sseData.event \in MARKDOWN_EVENTS
  \/ /\ sseData.event = "component_generator"
     /\ sseData.data.payload.component_type \notin REPLACE_COMPONENT_TYPES

\* the component kind of the item an append event builds
AppendKind(sseData) ==
  IF sseData.event = "component_generator"
  THEN sseData.data.payload.component_type ELSE "markdown"

\* C4: a chunk b with content merged in append mode onto an item with
\* content leaves the task as it was but for the content of that item,
\* which becomes the existing content followed by the content of b; and a
\* chunk a whose item_id is new to the task adds, at the end, an item that
\* holds the content, role, metadata and address of a.  Chunk a then chunk
\* b thus give content(a) + content(b) and the other fields of a.
C4_AppendConcatenates ==
  (/\ IsUpdate
   /\ IsAppendEvent(LastEvent)
   /\ LastEvent.data.payload.hasContent
   /\ AppendKind(LastEvent) \notin AGENT_SECTION_COMPONENT_TYPE) =>
    LET b == LastEvent.data
        hits == PositionsOf(PrevItemsOfEvent, b.item_id)
    IN IF hits = {}
       THEN /\ Len(ItemsOfEvent) = Len(PrevItemsOfEvent) + 1
            /\ SubSeq(ItemsOfEvent, 1, Len(PrevItemsOfEvent))
                 = PrevItemsOfEvent
            /\ LET item == ItemsOfEvent[Len(ItemsOfEvent)]
               IN /\ item.payload.content = b.payload.content
                  /\ item.role = b.role
                  /\ item.metadata = b.metadata
                  /\ item.component_type = AppendKind(LastEvent)
                  /\ item.item_id = b.item_id
                  /\ item.conversation_id = b.conversation_id
                  /\ item.thread_id = b.thread_id
                  /\ item.task_id = b.task_id
       ELSE \A p \in hits :
              PrevItemsOfEvent[p].payload.hasContent =>
                ItemsOfEvent =
                  [PrevItemsOfEvent EXCEPT
                     ![p].payload.content = @ \o b.payload.content]

\* chunk "bar" of an agent was appended onto the item a user's chunk "foo"
\* had created: the content is "foobar", the role still the user's
C4_Witness ==
  /\ IsUpdate
  /\ IsAppendEvent(LastEvent)
  /\ LastEvent.data.payload.content = <<"bar">>
  /\ LastEvent.data.role = "agent"
  /\ \E p \in PositionsOf(PrevItemsOfEvent, LastEvent.data.item_id) :
       /\ PrevItemsOfEvent[p].payload.content = <<"foo">>
       /\ PrevItemsOfEvent[p].component_type = "markdown"
       /\ ItemsOfEvent[p].payload.content = <<"foo", "bar">>
       /\ ItemsOfEvent[p].role = "user"

----------------------------------------------------------------------------
(* C6 *)

\* C6: no item of the main tree is of a section-worthy kind; every item of
\* sections[kind] is of that kind, a section-worthy one, and its item_id is
\* found once in its section task; and the item a generated-component event
\* of a section-worthy kind writes is found once in sections[kind] under its
\* task_id while the main tree task is left as it was.
C6_SectionExclusive ==
  /\ \A e \in MainEntries(store) :
       e.item.component_type \notin AGENT_SECTION_COMPONENT_TYPE
  /\ \A e \in SectionEntries(store) :
       /\ e.kind \in AGENT_SECTION_COMPONENT_TYPE
       /\ e.item.component_type = e.kind
       /\ Cardinality(PositionsOf(
            SectionItemsAt(store, e.conversation_id, e.kind, e.task_id),
            e.item.item_id)) = 1
  /\ (/\ IsUpdate
      /\ LastEvent.event = "component_generator"
      /\ LastEvent.data.payload.component_type
           \in AGENT_SECTION_COMPONENT_TYPE) =>
       /\ Cardinality(PositionsOf(
            SectionItemsAt(store, LastEvent.data.conversation_id,
                           LastEvent.data.payload.component_type,
                           LastEvent.data.task_id),
            LastEvent.data.item_id)) = 1
       /\ ItemsOfEvent = PrevItemsOfEvent

\* a section-worthy item was written to a task whose main tree already
\* holds an item of the same item_id
C6_Witness ==
  /\ IsUpdate
  /\ LastEvent.event = "component_generator"
  /\ LastEvent.data.payload.component_type \in AGENT_SECTION_COMPONENT_TYPE
  /\ PositionsOf(ItemsOfEvent, LastEvent.data.item_id) # {}
  /\ PositionsOf(SectionItemsAt(store, LastEvent.data.conversation_id,
                                LastEvent.data.payload.component_type,
                                LastEvent.data.task_id),
                 LastEvent.data.item_id) # {}

----------------------------------------------------------------------------
(* C7 *)

\* the events of a list addressed to conversation c
AddressedTo(sseDataList, c) ==
  {sseDataList[j].data : j \in {j \in 1..Len(sseDataList) :
     /\ sseDataList[j].event \in CONSUMED_EVENTS
     /\ sseDataList[j].data.conversation_id = c}}

\* C7: after a batch call with clearHistory on a conversation c the store
\* held, c is what the replay of the same list on the empty store makes of
\* it (absent when no event of the list addresses c), and every thread,
\* task and item of c is addressed by an event of the list.
C7_BatchClear ==
  (/\ IsBatch
   /\ LastCall.clearHistory
   /\ LastCall.conversationId \in DOMAIN prev) =>
    LET c == LastCall.conversationId
        events == AddressedTo(LastCall.sseDataList, c)
        replay == BatchUpdateAgentConversationsStore(
                    EmptyStore, c, LastCall.sseDataList, TRUE)
    IN /\ c \in DOMAIN store <=> events # {}
       /\ c \in DOMAIN store =>
            /\ c \in DOMAIN replay /\ store[c] = replay[c]
            /\ \A t \in DOMAIN store[c].threads :
                 \A j \in 1..Len(store[c].threads[t].tasks) :
                   \E d \in events :
                     /\ d.thread_id = t
                     /\ d.task_id = store[c].threads[t].tasks[j].task_id
            /\ \A e \in MainEntries(store) :
                 e.conversation_id = c =>
                   \E d \in events :
                     /\ d.thread_id = e.thread_id
                     /\ d.task_id = e.task_id
                     /\ d.item_id = e.item.item_id
            /\ \A e \in SectionEntries(store) :
                 e.conversation_id = c =>
                   \E d \in events :
                     d.task_id = e.task_id /\ d.item_id = e.item.item_id

\* a batch with clearHistory replayed events onto a conversation that held
\* an item the events do not address
C7_Witness ==
  /\ IsBatch
  /\ LastCall.clearHistory
  /\ LastCall.conversationId \in DOMAIN prev
  /\ LastCall.conversationId \in DOMAIN store
  /\ \E e \in MainEntries(prev) :
       /\ e.conversation_id = LastCall.conversationId
       /\ \A d \in AddressedTo(LastCall.sseDataList, e.conversation_id) :
            d.item_id # e.item.item_id \/ d.thread_id # e.thread_id

----------------------------------------------------------------------------
(* C8 *)

\* content that parses to a record whose isComplete is true
IsCompleteContent(item) ==
  /\ HasContent(item)
  /\ JSONParse(item.payload.content).ok
  /\ GetField(JSONParse(item.payload.content).obj, "isComplete") = <<JTRUE>>

\* C8: after a batch call on conversation c every reasoning-kind item of c
\* is complete.
C8_BatchCompletesAllReasoning ==
  IsBatch =>
    \A e \in MainEntries(store) :
      (/\ e.conversation_id = LastCall.conversationId
       /\ e.item.component_type = "reasoning") => IsCompleteContent(e.item)

----------------------------------------------------------------------------
(* C9 *)

\* C9: an update with an event of a kind that is not consumed returns the
\* store it was given.
C9_UnknownKindNoOp ==
  (IsUpdate /\ LastEvent.event \notin CONSUMED_EVENTS) => store = prev

\* an event of an unknown kind was fed to a store that holds items but not
\* the path the event addresses
C9_Witness ==
  /\ IsUpdate
  /\ LastEvent.event \notin CONSUMED_EVENTS
  /\ prev # EmptyStore
  /\ PrevItemsOfEvent = <<>>

----------------------------------------------------------------------------
(* C5 *)

\* the serialized record { content: text, isComplete: done } of a text
\* without quotes or backslashes
PlainRecord(text, done) ==
  <<LBRACE, KeyToken("content"), QUOTE>> \o text
  \o <<QUOTE, COMMA, KeyToken("isComplete"), done, RBRACE>>

\* the last n calls are updates with events of the kinds given, all of the
\* address of the last one
LastEventsAre(kinds) ==
  /\ Len(calls) >= Len(kinds)
  /\ \A j \in 1..Len(kinds) :
       LET past == calls[Len(calls) - Len(kinds) + j] IN
       /\ past.op = "update"
       /\ past.sseDataList[1].event = kinds[j]
       /\ [past.sseDataList[1].data EXCEPT !.payload = NoContentPayload]
            = [LastEvent.data EXCEPT !.payload = NoContentPayload]

\* the content of the n-th call before the last one
ChunkBefore(n) == calls[Len(calls) - n].sseDataList[1].data.payload.content

\* C5: after reasoning_started and two reasoning chunks x, y for one
\* item_id the item holds the record { content: x + y, isComplete: false };
\* after a reasoning_completed that follows them it holds
\* { content: x + y, isComplete: true }.
C5_ReasoningMerge ==
  /\ LastEventsAre(<<"reasoning_started", "reasoning", "reasoning">>) =>
       \E p \in 1..Len(ItemsOfEvent) :
         /\ PositionsOf(ItemsOfEvent, LastEvent.data.item_id) = {p}
         /\ ItemsOfEvent[p].component_type = "reasoning"
         /\ ItemsOfEvent[p].payload.content =
              PlainRecord(ChunkBefore(1) \o ChunkBefore(0), JFALSE)
  /\ LastEventsAre(<<"reasoning_started", "reasoning", "reasoning",
                     "reasoning_completed">>) =>
       \E p \in 1..Len(ItemsOfEvent) :
         /\ PositionsOf(ItemsOfEvent, LastEvent.data.item_id) = {p}
         /\ ItemsOfEvent[p].component_type = "reasoning"
         /\ ItemsOfEvent[p].payload.content =
              PlainRecord(ChunkBefore(2) \o ChunkBefore(1), JTRUE)
         /\ prev # store

\* reasoning_started, "foo", "bar", reasoning_completed were sent for an
\* item that held other content before: the record is "foobar", complete
C5_Witness ==
  /\ Len(calls) = 5
  /\ LastEventsAre(<<"reasoning_started", "reasoning", "reasoning",
                     "reasoning_completed">>)
  /\ ChunkBefore(2) = <<"foo">>
  /\ ChunkBefore(1) = <<"bar">>
  /\ calls[1].sseDataList[1].data.item_id = LastEvent.data.item_id
  /\ \E p \in 1..Len(ItemsOfEvent) :
       ItemsOfEvent[p].payload.content = PlainRecord(<<"foo", "bar">>, JTRUE)

----------------------------------------------------------------------------
(* C10 *)

IsToolCallEvent(sseData) ==
  sseData.event \in {"tool_call_started", "tool_call_completed"}

\* the tool-call events sent to the thread of the last event before it
EarlierToolCalls ==
  SelectSeq([j \in 1..(Len(calls) - 1) |-> calls[j].sseDataList[1]],
            LAMBDA e : /\ IsToolCallEvent(e)
                       /\ e.data.conversation_id
                            = LastEvent.data.conversation_id
                       /\ e.data.thread_id = LastEvent.data.thread_id)

\* the thread of the last event as the call found it
PrevThreadOfEvent ==
  IF /\ LastEvent.data.conversation_id \in DOMAIN prev
     /\ LastEvent.data.thread_id
          \in DOMAIN prev[LastEvent.data.conversation_id].threads
  THEN prev[LastEvent.data.conversation_id].threads[LastEvent.data.thread_id]
  ELSE EmptyThread

\* the subject names found in the user-authored items of that thread
PrevSubjectNames ==
  {ExtractCompanyNameFromText(e.item.payload.content) :
     e \in {e \in MainEntries(prev) :
              /\ e.conversation_id = LastEvent.data.conversation_id
              /\ e.thread_id = LastEvent.data.thread_id
              /\ e.item.role = "user"
              /\ e.item.payload.hasContent}} \ {NoString}

\* the scenario: the third tool-call event of a thread whose first one
\* named the plan-generation tool, a user message of the thread names one
\* subject, and the event has ordinal 2 under the analysis template
C10_Scenario ==
  /\ IsUpdate
  /\ \A j \in 1..Len(calls) : calls[j].op = "update"
  /\ IsToolCallEvent(LastEvent)
  /\ Len(EarlierToolCalls) = 2
  /\ EarlierToolCalls[1].data.payload.tool_name = PLAN_TOOL
  /\ Cardinality(PrevSubjectNames) = 1
  /\ GetToolStepOrderInThread(PrevThreadOfEvent, LastEvent.data.item_id,
                              LastEvent.data.payload.tool_name) = 2
  /\ DetectStepTemplateInThread(PrevThreadOfEvent) = "analysis"

\* C10: in the scenario the item written holds the payload of the event
\* and a step_label made of the second analysis title and the subject name
\* in brackets.
C10_StepLabelScenario ==
  C10_Scenario =>
    \E p \in 1..Len(ItemsOfEvent), name \in PrevSubjectNames :
      /\ PositionsOf(ItemsOfEvent, LastEvent.data.item_id) = {p}
      /\ ItemsOfEvent[p].component_type = "tool_call"
      /\ ItemsOfEvent[p].payload.content =
           <<LBRACE, KeyToken("tool_name"), QUOTE,
             LastEvent.data.payload.tool_name, QUOTE, COMMA,
             KeyToken("step_label"), QUOTE,
             ANALYSIS_STEP_TITLES[2], LBRACKET>>
           \o name \o <<RBRACKET, QUOTE, RBRACE>>

\* the user names Moutai, the plan tool is started and completed, and then
\* web_search is started
C10_Witness ==
  /\ C10_Scenario
  /\ Len(calls) = 4
  /\ calls[1].sseDataList[1].event = "message"
  /\ calls[2].sseDataList[1].event = "tool_call_started"
  /\ calls[3].sseDataList[1].event = "tool_call_completed"
  /\ LastEvent.event = "tool_call_started"
  /\ LastEvent.data.payload.tool_name = "web_search"
  /\ PrevSubjectNames = {<<"foo", "Moutai">>}

----------------------------------------------------------------------------
(* C11 *)

\* the addresses events are sent to, one event data for each
EventData ==
  {Data(a[1], a[2], a[3], a[4], "agent", NoContentPayload, NoString) :
     a \in {A1, A3, A4, A5}}

\* the conversation, the thread and the task of an address are present
HasPath(st, data) ==
  /\ data.conversation_id \in DOMAIN st
  /\ data.thread_id \in DOMAIN st[data.conversation_id].threads
  /\ HasTask(st[data.conversation_id].threads[data.thread_id], data.task_id)

\* C11: resolving an address a second time returns the store the first
\* resolution returned; a resolution of an address that is present changes
\* nothing, a resolution of any address keeps every item where it is and
\* leaves the address present; the address of a consumed event is present
\* after the call.
C11_EnsurePathIdempotent ==
  /\ \A data \in EventData :
       LET once == EnsurePath(store, data) IN
       /\ EnsurePath(once, data) = once
       /\ HasPath(once, data)
       /\ HasPath(store, data) => once = store
       /\ MainEntries(store) \subseteq MainEntries(once)
       /\ SectionEntries(store) = SectionEntries(once)
  /\ (IsUpdate /\ LastEvent.event \in CONSUMED_EVENTS) =>
       HasPath(store, LastEvent.data)

\* an event resolved a path that the store held already, with items in its
\* task and a second task in its thread
C11_Witness ==
  /\ IsUpdate
  /\ LastEvent.event \in CONSUMED_EVENTS
  /\ HasPath(prev, LastEvent.data)
  /\ PrevItemsOfEvent # <<>>
  /\ Len(prev[LastEvent.data.conversation_id]
           .threads[LastEvent.data.thread_id].tasks) >= 2

----------------------------------------------------------------------------
(* C12 *)

\* the item of the last event in its task before the call has content that
\* does not parse
ExistingIsUnparsable ==
  \E p \in PositionsOf(PrevItemsOfEvent, LastEvent.data.item_id) :
    /\ HasContent(PrevItemsOfEvent[p])
    /\ ~JSONParse(PrevItemsOfEvent[p].payload.content).ok

\* the tool-call items of a thread whose content does not parse
UnparsableToolCalls(thread) ==
  {p \in 1..Len(GetThreadItems(thread)) :
     /\ IsToolCallWithContent(GetThreadItems(thread)[p])
     /\ ~JSONParse(GetThreadItems(thread)[p].payload.content).ok}

----------------------------------------------------------------------------
(* C13 *)

\* the tasks of a container other than task k are where and what they were
OtherTasksKept(before, after, k) ==
  /\ Len(after.tasks) >= Len(before.tasks)
  /\ \A j \in 1..Len(before.tasks) :
       /\ after.tasks[j].task_id = before.tasks[j].task_id
       /\ before.tasks[j].task_id # k => after.tasks[j] = before.tasks[j]
  /\ \A j \in (Len(before.tasks) + 1)..Len(after.tasks) :
       after.tasks[j].task_id = k

\* the threads of a conversation other than thread t are what they were,
\* and so are the tasks of t other than task k
OtherThreadsKept(before, after, t, k) ==
  /\ DOMAIN before.threads \subseteq DOMAIN after.threads
  /\ DOMAIN after.threads \subseteq DOMAIN before.threads \cup {t}
  /\ \A t2 \in DOMAIN before.threads :
       IF t2 = t
       THEN OtherTasksKept(before.threads[t2], after.threads[t2], k)
       ELSE after.threads[t2] = before.threads[t2]

\* the sections of a conversation other than the tasks k of the sections
\* in kinds are what they were
OtherSectionsKept(before, after, kinds, k) ==
  /\ DOMAIN before.sections \subseteq DOMAIN after.sections
  /\ DOMAIN after.sections \subseteq DOMAIN before.sections \cup kinds
  /\ \A s \in DOMAIN before.sections :
       IF s \in kinds
       THEN OtherTasksKept(before.sections[s], after.sections[s], k)
       ELSE after.sections[s] = before.sections[s]

\* the section kinds the last event may write to
SectionKindsOfEvent ==
  IF LastEvent.event = "component_generator"
  THEN {LastEvent.data.payload.component_type}
         \cap AGENT_SECTION_COMPONENT_TYPE
  ELSE {}

\* C13: an update leaves every conversation but the addressed one, every
\* thread of it but the addressed one and every task of that thread but
\* the addressed one as they were; of the sections only the task of the
\* same id in the section of a section-worthy kind may differ.
C13_UpdateFrame ==
  IsUpdate =>
    LET c == LastEvent.data.conversation_id
        t == LastEvent.data.thread_id
        k == LastEvent.data.task_id
    IN /\ DOMAIN prev \subseteq DOMAIN store
       /\ DOMAIN store \subseteq DOMAIN prev \cup {c}
       /\ \A c2 \in DOMAIN prev \ {c} : store[c2] = prev[c2]
       /\ c \in DOMAIN prev =>
            /\ OtherThreadsKept(prev[c], store[c], t, k)
            /\ OtherSectionsKept(prev[c], store[c], SectionKindsOfEvent, k)

\* an update wrote to a conversation that held another thread, and to a
\* thread that held another task
C13_Witness ==
  /\ IsUpdate
  /\ store # prev
  /\ LastEvent.data.conversation_id \in DOMAIN prev
  /\ LET conversation == prev[LastEvent.data.conversation_id]
     IN /\ LastEvent.data.thread_id \in DOMAIN conversation.threads
        /\ DOMAIN conversation.threads # {LastEvent.data.thread_id}
        /\ \E j \in 1..Len(conversation.threads[LastEvent.data.thread_id]
                             .tasks) :
             /\ conversation.threads[LastEvent.data.thread_id].tasks[j]
                  .task_id # LastEvent.data.task_id
             /\ conversation.threads[LastEvent.data.thread_id].tasks[j]
                  .items # <<>>

----------------------------------------------------------------------------
(* C14 *)

\* the store a call returns
ApplyCall(st, call) ==
  IF call.op = "update"
  THEN UpdateAgentConversationsStore(st, call.sseDataList[1])
  ELSE BatchUpdateAgentConversationsStore(st, call.conversationId,
                                          call.sseDataList, call.clearHistory)

\* the store after a sequence of calls
RECURSIVE Replay(_, _)
Replay(st, cs) ==
  IF cs = <<>> THEN st ELSE Replay(ApplyCall(st, Head(cs)), Tail(cs))

\* the events applied one at a time, in list order
RECURSIVE OneAtATime(_, _)
OneAtATime(st, sseDataList) ==
  IF sseDataList = <<>> THEN st
  ELSE OneAtATime(UpdateAgentConversationsStore(st, Head(sseDataList)),
                  Tail(sseDataList))

\* the calls from k + 1 to the one before the last are updates
UpdatesAfter(k) ==
  \A j \in (k + 1)..(Len(calls) - 1) : calls[j].op = "update"

\* the events of those updates
EventsAfter(k) ==
  [j \in 1..(Len(calls) - 1 - k) |-> calls[k + j].sseDataList[1]]

\* C14: a batch without clearing returns what its events applied one at a
\* time and then the forced completion of the conversation return; stated
\* both ways: a run of updates closed by an empty batch equals the one
\* batch of their events, and a batch equals its events one at a time
\* closed by an empty batch; every consumed event of a batch finds its
\* path afterwards, created or not before.
C14_BatchIsSequence ==
  (IsBatch /\ ~LastCall.clearHistory) =>
    /\ LastCall.sseDataList = <<>> =>
         \A k \in 0..(Len(calls) - 1) :
           UpdatesAfter(k) =>
             store = BatchUpdateAgentConversationsStore(
                       Replay(EmptyStore, SubSeq(calls, 1, k)),
                       LastCall.conversationId, EventsAfter(k), FALSE)
    /\ store = BatchUpdateAgentConversationsStore(
                 OneAtATime(prev, LastCall.sseDataList),
                 LastCall.conversationId, <<>>, FALSE)
    /\ \A j \in 1..Len(LastCall.sseDataList) :
         LastCall.sseDataList[j].event \in CONSUMED_EVENTS =>
           HasPath(store, LastCall.sseDataList[j].data)

\* three updates, the last two on one item of one task, closed by an empty
\* batch that completes a reasoning item
C14_Witness ==
  /\ IsBatch
  /\ ~LastCall.clearHistory
  /\ LastCall.sseDataList = <<>>
  /\ Len(calls) = 4
  /\ UpdatesAfter(0)
  /\ calls[2].sseDataList[1].data.item_id
       = calls[3].sseDataList[1].data.item_id
  /\ calls[2].sseDataList[1].data.task_id
       = calls[3].sseDataList[1].data.task_id
  /\ calls[2].sseDataList[1].event # calls[3].sseDataList[1].event
  /\ store # prev

----------------------------------------------------------------------------
(* C15 *)

\* the events merged in replace mode
IsReplaceEvent(sseData) ==
  \/ IsToolCallEvent(sseData)
  \/ sseData.event = "reasoning_started"
  \/ /\ sseData.event = "component_generator"
     /\ sseData.data.payload.component_type \in REPLACE_COMPONENT_TYPES

\* the items of the task the last event is merged into (of the section for
\* a section-worthy kind), in a store
TargetItems(st) ==
  IF SectionKindsOfEvent # {}
  THEN SectionItemsAt(st, LastEvent.data.conversation_id,
                      LastEvent.data.payload.component_type,
                      LastEvent.data.task_id)
  ELSE ItemsAt(st, LastEvent.data.conversation_id, LastEvent.data.thread_id,
               LastEvent.data.task_id)

\* the item is the one the last event builds: its address, role and
\* metadata, its kind and its payload
IsItemOfEvent(item) ==
  /\ item.item_id = LastEvent.data.item_id
  /\ item.conversation_id = LastEvent.data.conversation_id
  /\ item.thread_id = LastEvent.data.thread_id
  /\ item.task_id = LastEvent.data.task_id
  /\ item.role = LastEvent.data.role
  /\ item.metadata = LastEvent.data.metadata
  /\ CASE LastEvent.event = "component_generator" ->
            /\ item.component_type = LastEvent.data.payload.component_type
            /\ item.payload = LastEvent.data.payload
       [] LastEvent.event = "reasoning_started" ->
            /\ item.component_type = "reasoning"
            /\ item.payload =
                 ContentPayload(<<LBRACE, KeyToken("content"), QUOTE, QUOTE,
                                  COMMA, KeyToken("isComplete"), JFALSE,
                                  RBRACE>>)
       [] IsToolCallEvent(LastEvent) ->
            /\ item.component_type = "tool_call"
            /\ \E label \in {<<JNULL>>} \cup
                            {StringifyString(
                               BuildPlannedStepLabel(n, name, type)) :
                               n \in 0..(Len(TargetItems(prev)) + 1),
                               name \in {NoString} \cup PrevSubjectNames,
                               type \in {"analysis", "news"}} :
                 item.payload =
                   ContentPayload(
                     <<LBRACE, KeyToken("tool_name"), QUOTE,
                       LastEvent.data.payload.tool_name, QUOTE, COMMA,
                       KeyToken("step_label")>> \o label \o <<RBRACE>>)
       [] OTHER -> FALSE

\* C15: a replace-mode event on an item_id its task holds puts the item the
\* event builds at the index of the existing one; the task keeps its
\* length and every other item its position.
C15_ReplaceKeepsPosition ==
  (IsUpdate /\ IsReplaceEvent(LastEvent)
     /\ PositionsOf(TargetItems(prev), LastEvent.data.item_id) # {}) =>
    /\ Len(TargetItems(store)) = Len(TargetItems(prev))
    /\ \A p \in 1..Len(TargetItems(prev)) :
         IF TargetItems(prev)[p].item_id = LastEvent.data.item_id
         THEN IsItemOfEvent(TargetItems(store)[p])
         ELSE TargetItems(store)[p] = TargetItems(prev)[p]

\* a replace-mode event met its item_id at the first place of a task of two
\* items, on an item of another kind and content
C15_Witness ==
  /\ IsUpdate
  /\ IsReplaceEvent(LastEvent)
  /\ Len(TargetItems(prev)) = 2
  /\ TargetItems(prev)[1].item_id = LastEvent.data.item_id
  /\ TargetItems(prev)[1].component_type # TargetItems(store)[1].component_type
  /\ TargetItems(prev)[1].payload # TargetItems(store)[1].payload

----------------------------------------------------------------------------
(* C16 *)

\* the text a reasoning event carries, none when its payload has no content
ChunkText(sseData) ==
  IF sseData.data.payload.hasContent THEN sseData.data.payload.content
  ELSE <<>>

\* the serialized record { content: text, isComplete: done }
RecordOf(text, done) ==
  <<LBRACE, KeyToken("content"), QUOTE>> \o Escape(text)
  \o <<QUOTE, COMMA, KeyToken("isComplete"), done, RBRACE>>

\* C16: a reasoning chunk on an item its task holds with content.  When the
\* existing content parses, the item keeps every field but its content,
\* which becomes the record of the existing content field (empty when
\* absent) followed by the chunk's text, with isComplete false, the value
\* of the new record; when it does not parse, the item becomes the
\* reasoning item of the event.
C16_AppendReasoning ==
  (IsUpdate /\ LastEvent.event = "reasoning") =>
    \A p \in PositionsOf(PrevItemsOfEvent, LastEvent.data.item_id) :
      HasContent(PrevItemsOfEvent[p]) =>
        /\ Len(ItemsOfEvent) = Len(PrevItemsOfEvent)
        /\ IF JSONParse(PrevItemsOfEvent[p].payload.content).ok
           THEN ItemsOfEvent[p] =
                  [PrevItemsOfEvent[p] EXCEPT !.payload.content =
                     RecordOf(ContentText(JSONParse(@).obj)
                              \o ChunkText(LastEvent), JFALSE)]
           ELSE /\ ItemsOfEvent[p].component_type = "reasoning"
                /\ ItemsOfEvent[p].role = LastEvent.data.role
                /\ ItemsOfEvent[p].metadata = LastEvent.data.metadata
                /\ ItemsOfEvent[p].payload.content =
                     IF LastEvent.data.payload.hasContent
                     THEN RecordOf(ChunkText(LastEvent), JFALSE)
                     ELSE <<LBRACE, KeyToken("isComplete"), JFALSE, RBRACE>>

\* a chunk "bar" met the completed record of "foo"
C16_Witness ==
  /\ IsUpdate
  /\ LastEvent.event = "reasoning"
  /\ ChunkText(LastEvent) = <<"bar">>
  /\ \E p \in PositionsOf(PrevItemsOfEvent, LastEvent.data.item_id) :
       /\ PrevItemsOfEvent[p].payload.content = RecordOf(<<"foo">>, JTRUE)
       /\ ItemsOfEvent[p].payload.content = RecordOf(<<"foo", "bar">>, JFALSE)

----------------------------------------------------------------------------
(* C17 *)

\* the item_ids of a sequence of items, in order
IdsOf(items) == [p \in 1..Len(items) |-> items[p].item_id]

\* the tasks of the main tree of a store, as <<c, t, k>>
MainTasks(st) ==
  UNION {UNION {{<<c, t, st[c].threads[t].tasks[j].task_id>> :
                   j \in 1..Len(st[c].threads[t].tasks)} :
                t \in DOMAIN st[c].threads} :
         c \in DOMAIN st}

\* the tasks of the sections of a store, as <<c, kind, k>>
SectionTasks(st) ==
  UNION {UNION {{<<c, s, st[c].sections[s].tasks[j].task_id>> :
                   j \in 1..Len(st[c].sections[s].tasks)} :
                s \in DOMAIN st[c].sections} :
         c \in DOMAIN st}

\* ids is old, or old with one id it did not hold behind it
SameOrOneMore(old, ids) ==
  \/ ids = old
  \/ /\ Len(ids) = Len(old) + 1
     /\ SubSeq(ids, 1, Len(old)) = old
     /\ \A p \in 1..Len(old) : old[p] # ids[Len(ids)]

\* C17: across an update the item_ids of every task, of the main tree and
\* of the sections, are the ones it had in the same order, or those and
\* one new item_id behind them; no task is lost.
C17_OrderOfFirstArrival ==
  IsUpdate =>
    /\ MainTasks(prev) \subseteq MainTasks(store)
    /\ SectionTasks(prev) \subseteq SectionTasks(store)
    /\ \A a \in MainTasks(store) :
         SameOrOneMore(IdsOf(ItemsAt(prev, a[1], a[2], a[3])),
                       IdsOf(ItemsAt(store, a[1], a[2], a[3])))
    /\ \A a \in SectionTasks(store) :
         SameOrOneMore(IdsOf(SectionItemsAt(prev, a[1], a[2], a[3])),
                       IdsOf(SectionItemsAt(store, a[1], a[2], a[3])))

\* the third update of a task: the first brought item i1, the second item
\* i2, and the third, a chunk for i1, left the order i1, i2
C17_Witness ==
  /\ IsUpdate
  /\ Len(calls) = 3
  /\ LastEvent.event \in {"reasoning", "message_chunk"}
  /\ LastEvent.data.item_id = "i1"
  /\ IdsOf(PrevItemsOfEvent) = <<"i1", "i2">>
  /\ IdsOf(ItemsOfEvent) = <<"i1", "i2">>
  /\ store # prev

----------------------------------------------------------------------------
(* C18 *)

\* C18: a generated-component event whose item_id is new to its task adds
\* the item of the event, its kind being payload.component_type as it is.
\* On an item_id the task holds, the kinds scheduled_task_result and
\* subagent_conversation put the item of the event in its place; every
\* other kind, when both have content, leaves the item but for its
\* content, which gets the content of the event behind it.
C18_GeneratedComponent ==
  (IsUpdate /\ LastEvent.event = "component_generator") =>
    LET before == TargetItems(prev)
        after == TargetItems(store)
        hits == PositionsOf(before, LastEvent.data.item_id)
    IN IF hits = {}
       THEN /\ Len(after) = Len(before) + 1
            /\ IsItemOfEvent(after[Len(after)])
            /\ after[Len(after)].component_type
                 = LastEvent.data.payload.component_type
       ELSE /\ Len(after) = Len(before)
            /\ \A p \in hits :
                 IF IsReplaceEvent(LastEvent)
                 THEN IsItemOfEvent(after[p])
                 ELSE (HasContent(before[p])
                         /\ LastEvent.data.payload.hasContent) =>
                        after[p] = [before[p] EXCEPT !.payload.content =
                                      @ \o LastEvent.data.payload.content]

\* a second report event lengthened the content of the first
C18_Witness ==
  /\ IsUpdate
  /\ LastEvent.event = "component_generator"
  /\ LastEvent.data.payload.component_type = "report"
  /\ \E p \in PositionsOf(TargetItems(prev), LastEvent.data.item_id) :
       /\ TargetItems(prev)[p].component_type = "report"
       /\ TargetItems(store)[p].payload.content = <<"foo", "foo">>

----------------------------------------------------------------------------
(* C19 *)

\* the item is the placeholder of the last event: a reasoning item at the
\* address of the event whose content is the record of no text, not complete
IsPlaceholder(item) ==
  /\ IsItemOfEvent(item)
  /\ item.component_type = "reasoning"
  /\ item.payload.hasContent
  /\ item.payload.content = RecordOf(<<>>, JFALSE)

\* C19: a reasoning_started event puts the placeholder, a reasoning item
\* whose record has empty content and isComplete false, in its task: behind
\* the items when the item_id is new, and otherwise in the place of the item
\* with that item_id, nothing of which is kept; the other items of the task
\* stay as they were.
C19_ReasoningStartedReplaces ==
  (IsUpdate /\ LastEvent.event = "reasoning_started") =>
    LET hits == PositionsOf(PrevItemsOfEvent, LastEvent.data.item_id) IN
    /\ \A p \in 1..Len(PrevItemsOfEvent) :
         p \notin hits => ItemsOfEvent[p] = PrevItemsOfEvent[p]
    /\ IF hits = {}
       THEN /\ Len(ItemsOfEvent) = Len(PrevItemsOfEvent) + 1
            /\ IsPlaceholder(ItemsOfEvent[Len(ItemsOfEvent)])
       ELSE /\ Len(ItemsOfEvent) = Len(PrevItemsOfEvent)
            /\ \A p \in hits : IsPlaceholder(ItemsOfEvent[p])

\* the item held the completed record of "foo" and now holds the placeholder
C19_Witness ==
  /\ IsUpdate
  /\ LastEvent.event = "reasoning_started"
  /\ \E p \in PositionsOf(PrevItemsOfEvent, LastEvent.data.item_id) :
       /\ PrevItemsOfEvent[p].payload.content = RecordOf(<<"foo">>, JTRUE)
       /\ ItemsOfEvent[p].payload.content = RecordOf(<<>>, JFALSE)

----------------------------------------------------------------------------
(* C20 *)

\* record after is record before with isComplete true: the other fields
\* keep their values and their places
CompletedRecord(before, after) ==
  /\ Len(after) = Len(before) + (IF HasField(before, "isComplete") THEN 0 ELSE 1)
  /\ GetField(after, "isComplete") = <<JTRUE>>
  /\ \A j \in 1..Len(before) :
       before[j].k # "isComplete" => after[j] = before[j]

\* item after is item before, marked complete
CompletedItem(before, after) ==
  /\ after = [before EXCEPT !.payload.content = after.payload.content]
  /\ IF JSONParse(before.payload.content).ok
     THEN /\ JSONParse(after.payload.content).ok
          /\ after.payload.content
               = JSONStringify(JSONParse(after.payload.content).obj)
          /\ CompletedRecord(JSONParse(before.payload.content).obj,
                             JSONParse(after.payload.content).obj)
     ELSE after.payload.content = RecordOf(before.payload.content, JTRUE)

\* C20: a reasoning_completed event adds no item to any task, of the main
\* tree or of the sections, and changes no item but the one with its
\* item_id in the task it addresses.  That item, when it has content, keeps
\* every field but its content: a content that parses becomes the same
\* record with isComplete true, and one that does not becomes the record
\* of the raw string, complete.  When the task holds no item with that
\* item_id, the items of every task are the ones before.
C20_ReasoningCompletedInPlace ==
  (IsUpdate /\ LastEvent.event = "reasoning_completed") =>
    LET hits == PositionsOf(PrevItemsOfEvent, LastEvent.data.item_id) IN
    /\ \A a \in SectionTasks(store) :
         SectionItemsAt(store, a[1], a[2], a[3])
           = SectionItemsAt(prev, a[1], a[2], a[3])
    /\ \A a \in MainTasks(store) :
         /\ Len(ItemsAt(store, a[1], a[2], a[3]))
              = Len(ItemsAt(prev, a[1], a[2], a[3]))
         /\ (hits = {} \/ ItemsAt(store, a[1], a[2], a[3]) # ItemsOfEvent)
              => ItemsAt(store, a[1], a[2], a[3])
                   = ItemsAt(prev, a[1], a[2], a[3])
    /\ \A p \in 1..Len(PrevItemsOfEvent) :
         IF p \in hits /\ HasContent(PrevItemsOfEvent[p])
         THEN CompletedItem(PrevItemsOfEvent[p], ItemsOfEvent[p])
         ELSE ItemsOfEvent[p] = PrevItemsOfEvent[p]

\* the record of "foo" was not complete and now is, in a task of two items
C20_Witness ==
  /\ IsUpdate
  /\ LastEvent.event = "reasoning_completed"
  /\ Len(PrevItemsOfEvent) = 2
  /\ \E p \in PositionsOf(PrevItemsOfEvent, LastEvent.data.item_id) :
       /\ PrevItemsOfEvent[p].payload.content = RecordOf(<<"foo">>, JFALSE)
       /\ ItemsOfEvent[p].payload.content = RecordOf(<<"foo">>, JTRUE)

----------------------------------------------------------------------------
(* C21 *)

\* the tool-call item of the last event with a step_label: the payload of
\* the event serialized, and step_label behind it, null for no label
ToolCallItemOf(label) ==
  [item_id |-> LastEvent.data.item_id,
   conversation_id |-> LastEvent.data.conversation_id,
   thread_id |-> LastEvent.data.thread_id,
   task_id |-> LastEvent.data.task_id,
   component_type |-> "tool_call",
   role |-> LastEvent.data.role,
   payload |->
     ContentPayload(
       <<LBRACE, KeyToken("tool_name"), QUOTE,
         LastEvent.data.payload.tool_name, QUOTE, COMMA,
         KeyToken("step_label")>>
       \o (IF label = NoString THEN <<JNULL>>
           ELSE <<QUOTE>> \o label \o <<QUOTE>>)
       \o <<RBRACE>>),
   metadata |-> LastEvent.data.metadata]

\* C21: a tool_call_started or tool_call_completed event leaves in its task
\* the tool_call item whose content is the payload of the event and a
\* step_label, the label synthesized from the thread as the call found it
\* or null when there is none; the item stands behind the others when its
\* item_id is new and in the place of the item with its item_id otherwise,
\* and the other items of the task are the ones before.
C21_ToolCallItem ==
  (IsUpdate /\ IsToolCallEvent(LastEvent)) =>
    LET hits == PositionsOf(PrevItemsOfEvent, LastEvent.data.item_id)
        Written(item) ==
          /\ \A p \in 1..Len(PrevItemsOfEvent) :
               p \notin hits => ItemsOfEvent[p] = PrevItemsOfEvent[p]
          /\ IF hits = {}
             THEN /\ Len(ItemsOfEvent) = Len(PrevItemsOfEvent) + 1
                  /\ ItemsOfEvent[Len(ItemsOfEvent)] = item
             ELSE /\ Len(ItemsOfEvent) = Len(PrevItemsOfEvent)
                  /\ \A p \in hits : ItemsOfEvent[p] = item
    IN Written(ToolCallItemOf(
         PlannedStepLabel(PrevThreadOfEvent, LastEvent.data)))

\* a tool call that held the second analysis title is written over with
\* the first one
C21_Witness ==
  /\ IsUpdate
  /\ IsToolCallEvent(LastEvent)
  /\ \E p \in PositionsOf(PrevItemsOfEvent, LastEvent.data.item_id) :
       /\ GetStepLabelFromItem(PrevItemsOfEvent[p]) = <<ANALYSIS_STEP_TITLES[2]>>
       /\ ItemsOfEvent[p] = ToolCallItemOf(<<ANALYSIS_STEP_TITLES[1]>>)

----------------------------------------------------------------------------
(* C22 *)

\* the threads of a store
ThreadsOf(st) ==
  UNION {{st[c].threads[t] : t \in DOMAIN st[c].threads} : c \in DOMAIN st}

\* the items of a thread, as a set
ItemSetOf(thread) ==
  UNION {{thread.tasks[j].items[p] : p \in 1..Len(thread.tasks[j].items)} :
           j \in 1..Len(thread.tasks)}

\* a user-authored item of the thread has content with a news marker
UserAsksNews(thread) ==
  \E item \in ItemSetOf(thread) :
    /\ item.role = "user"
    /\ item.payload.hasContent
    /\ \E j \in 1..Len(item.payload.content) :
         item.payload.content[j] = NEWSMARK

\* the tool names of the planning run of the thread
RunToolNames(thread) ==
  {StringOf(GetField(JSONParse(item.payload.content).obj, "tool_name")) :
     item \in {GetPlanningToolItems(thread)[j] :
                 j \in 1..Len(GetPlanningToolItems(thread))}}

\* the template the claim gives the thread
TemplateOf(thread) ==
  IF UserAsksNews(thread) THEN "news"
  ELSE IF /\ \E name \in RunToolNames(thread) : \E t \in NEWS_TOOLS : name = <<t>>
          /\ \A name \in RunToolNames(thread) : \A t \in RESEARCH_TOOLS : name # <<t>>
  THEN "news"
  ELSE "analysis"

\* C22: the template of every thread is news when a user-authored item
\* with content has a news marker; otherwise it is news exactly when the
\* planning run names a news tool and no research tool, and analysis in
\* every other case.  A label written by a tool-call event is a news title
\* exactly when the template of its thread, as the call found it, is news.
C22_TemplateClassification ==
  /\ \A thread \in ThreadsOf(store) :
       DetectStepTemplateInThread(thread) = TemplateOf(thread)
  /\ (IsUpdate /\ IsToolCallEvent(LastEvent)) =>
       \A p \in PositionsOf(ItemsOfEvent, LastEvent.data.item_id) :
         GetStepLabelFromItem(ItemsOfEvent[p]) # NoString =>
           ((\E n \in 1..Len(NEWS_STEP_TITLES) :
               GetStepLabelFromItem(ItemsOfEvent[p])[1] = NEWS_STEP_TITLES[n])
            <=> TemplateOf(PrevThreadOfEvent) = "news")

\* the user asked for news, the run holds a research tool, and the label
\* written is the third news title
C22_Witness ==
  /\ IsUpdate
  /\ IsToolCallEvent(LastEvent)
  /\ UserAsksNews(PrevThreadOfEvent)
  /\ <<"fetch_ashare_filings">> \in RunToolNames(PrevThreadOfEvent)
  /\ \E p \in PositionsOf(ItemsOfEvent, LastEvent.data.item_id) :
       GetStepLabelFromItem(ItemsOfEvent[p]) = <<NEWS_STEP_TITLES[3]>>

----------------------------------------------------------------------------
(* C23 *)

\* the events of the calls made, one after the other
RECURSIVE EventsOfCalls(_)
EventsOfCalls(cs) ==
  IF cs = <<>> THEN <<>>
  ELSE Head(cs).sseDataList \o EventsOfCalls(Tail(cs))

\* the <<task_id, item_id>> of the events, each at its first arrival
RECURSIVE ArrivalKeys(_, _)
ArrivalKeys(events, seen) ==
  IF events = <<>> THEN seen
  ELSE ArrivalKeys(Tail(events),
         IF \E j \in 1..Len(seen) :
              seen[j] = <<Head(events).data.task_id, Head(events).data.item_id>>
         THEN seen
         ELSE Append(seen, <<Head(events).data.task_id,
                             Head(events).data.item_id>>))

\* the items thread t of conversation c holds, in the order they arrived
ItemsInArrivalOrder(c, t) ==
  LET keys == ArrivalKeys(
                SelectSeq(EventsOfCalls(calls),
                          LAMBDA e : /\ e.event \in CONSUMED_EVENTS
                                     /\ e.data.conversation_id = c
                                     /\ e.data.thread_id = t),
                <<>>)
      held == SelectSeq(keys,
                LAMBDA key : PositionsOf(ItemsAt(store, c, t, key[1]), key[2]) # {})
  IN [j \in 1..Len(held) |->
        ItemsAt(store, c, t, held[j][1])[
          CHOOSE p \in PositionsOf(ItemsAt(store, c, t, held[j][1]), held[j][2]) : TRUE]]

\* an anchor: a tool call whose content parses and names the
\* plan-generation tool or holds a first-step title as step_label
IsAnchor(item) ==
  /\ item.component_type = "tool_call"
  /\ item.payload.hasContent
  /\ JSONParse(item.payload.content).ok
  /\ \/ GetField(JSONParse(item.payload.content).obj, "tool_name")
          = <<QUOTE, PLAN_TOOL, QUOTE>>
     \/ \E title \in {ANALYSIS_STEP_TITLES[1], NEWS_STEP_TITLES[1]} :
          GetField(JSONParse(item.payload.content).obj, "step_label")
            = <<QUOTE, title, QUOTE>>

\* the suffix of a sequence of tool calls that starts at its last anchor
FromLastAnchorOn(toolItems) ==
  IF \E i \in 1..Len(toolItems) : IsAnchor(toolItems[i])
  THEN SubSeq(toolItems,
              CHOOSE i \in 1..Len(toolItems) :
                /\ IsAnchor(toolItems[i])
                /\ \A j \in (i + 1)..Len(toolItems) : ~IsAnchor(toolItems[j]),
              Len(toolItems))
  ELSE <<>>

\* C23: the planning run of thread t1 of conversation c1 is the suffix,
\* from the last anchor on, of the tool calls of the thread in the order
\* they arrived, whatever their tasks, and empty when there is no anchor.
C23_PlanningRunInArrivalOrder ==
  ("c1" \in DOMAIN store /\ "t1" \in DOMAIN store["c1"].threads) =>
    GetPlanningToolItems(store["c1"].threads["t1"])
      = FromLastAnchorOn(SelectSeq(ItemsInArrivalOrder("c1", "t1"),
                                   IsToolCallItem))

----------------------------------------------------------------------------
(* C24 *)

\* the step_label the last event, a tool call, left in its item
WrittenStepLabel ==
  GetStepLabelFromItem(
    ItemsOfEvent[CHOOSE p \in PositionsOf(ItemsOfEvent, LastEvent.data.item_id) : TRUE])

\* (a) the event names the plan-generation tool
NamesPlanTool == LastEvent.data.payload.tool_name = PLAN_TOOL

\* (b) the first item of the planning run of the thread names the
\* plan-generation tool or holds a first-step title
RunStartsWithPlan(thread) ==
  /\ GetPlanningToolItems(thread) # <<>>
  /\ IsAnchor(GetPlanningToolItems(thread)[1])

\* C24: a tool-call event writes a step_label other than null only if it
\* names the plan-generation tool or the planning run of its thread, as the
\* call found it, starts with an item that names that tool or holds a
\* first-step title; the gate of the code is open exactly then, under the
\* analysis template an open gate always gives a label, and an event for
\* another tool in a thread without an anchor writes null.
C24_TemplateGate ==
  (IsUpdate /\ IsToolCallEvent(LastEvent)) =>
    /\ WrittenStepLabel # NoString =>
         (NamesPlanTool \/ RunStartsWithPlan(PrevThreadOfEvent))
    /\ ShouldApplyAnalysisStepTemplate(PrevThreadOfEvent,
                                       LastEvent.data.payload.tool_name)
         <=> (NamesPlanTool \/ RunStartsWithPlan(PrevThreadOfEvent))
    /\ ((NamesPlanTool \/ RunStartsWithPlan(PrevThreadOfEvent))
          /\ TemplateOf(PrevThreadOfEvent) = "analysis")
         => WrittenStepLabel # NoString
    /\ (~NamesPlanTool
          /\ \A item \in ItemSetOf(PrevThreadOfEvent) : ~IsAnchor(item))
         => WrittenStepLabel = NoString

\* a tool call for web_search in a thread that holds a tool call and a
\* user message but no anchor gets no label
C24_Witness ==
  /\ IsUpdate
  /\ IsToolCallEvent(LastEvent)
  /\ LastEvent.data.payload.tool_name = "web_search"
  /\ \E item \in ItemSetOf(PrevThreadOfEvent) : item.component_type = "tool_call"
  /\ \E item \in ItemSetOf(PrevThreadOfEvent) : item.role = "user"
  /\ \A item \in ItemSetOf(PrevThreadOfEvent) : ~IsAnchor(item)
  /\ WrittenStepLabel = NoString

----------------------------------------------------------------------------
(* C25 *)

\* the index, from 0, of the first item of the run with an item_id
IndexInRun(run, itemId) ==
  (CHOOSE p \in 1..Len(run) :
     /\ run[p].item_id = itemId
     /\ \A q \in 1..(p - 1) : run[q].item_id # itemId) - 1

\* the ordinal the claim gives the last event, a tool call, in a run
OrdinalIn(run) ==
  IF run = <<>>
  THEN (IF NamesPlanTool THEN 1 ELSE 0)
  ELSE IF \E p \in 1..Len(run) : run[p].item_id = LastEvent.data.item_id
  THEN 1 + IndexInRun(run, LastEvent.data.item_id)
  ELSE Len(run) + 1

\* C25: the ordinal of a tool-call event, taken in the thread as the call
\* found it: with an empty planning run 1 for the plan-generation tool and
\* 0 for another tool; otherwise 1 + the index in the run of the item with
\* the item_id of the event, and the length of the run + 1 when the run
\* holds no such item.  Where the gate is open the label written is the
\* one synthesized for that ordinal.
C25_StepOrdinal ==
  (IsUpdate /\ IsToolCallEvent(LastEvent)) =>
    /\ GetToolStepOrderInThread(PrevThreadOfEvent, LastEvent.data.item_id,
                                LastEvent.data.payload.tool_name)
         = OrdinalIn(GetPlanningToolItems(PrevThreadOfEvent))
    /\ (NamesPlanTool \/ RunStartsWithPlan(PrevThreadOfEvent)) =>
         WrittenStepLabel =
           BuildPlannedStepLabel(
             OrdinalIn(GetPlanningToolItems(PrevThreadOfEvent)),
             DetectCompanyNameInThread(PrevThreadOfEvent,
                                       LastEvent.data.metadata.task_title),
             TemplateOf(PrevThreadOfEvent))

\* a tool call that stands second in a run of three is sent again and gets
\* ordinal 2
C25_Witness ==
  /\ IsUpdate
  /\ IsToolCallEvent(LastEvent)
  /\ Len(GetPlanningToolItems(PrevThreadOfEvent)) = 3
  /\ GetPlanningToolItems(PrevThreadOfEvent)[2].item_id = LastEvent.data.item_id
  /\ OrdinalIn(GetPlanningToolItems(PrevThreadOfEvent)) = 2
  /\ WrittenStepLabel = <<NEWS_STEP_TITLES[2]>>

----------------------------------------------------------------------------
(* C26 *)

IsLabelCall == Called /\ LastCall.op = "buildPlannedStepLabel"

\* the titles of a template
TitlesOf(templateType) ==
  IF templateType = "news" THEN NEWS_STEP_TITLES ELSE ANALYSIS_STEP_TITLES

\* C26: the label of (template, ordinal) starts with the ordinal-th title
\* of the template; for analysis, ordinal 0 and the ordinals past the six
\* titles give the overflow title; for news, ordinal 0 and the ordinals
\* past the three titles give no label; the subject in brackets follows
\* the title exactly when the template is analysis, the ordinal is 2 or
\* more and there is a subject, and nothing else follows a title.
C26_LabelSynthesis ==
  IsLabelCall =>
    LET n == LastCall.stepOrder
        titles == TitlesOf(LastCall.templateType)
        label == LastCall.result
    IN /\ n \in 1..Len(titles) => (label # NoString /\ label[1] = titles[n])
       /\ (LastCall.templateType = "analysis" /\ n \notin 1..Len(titles))
            => (label # NoString /\ label[1] = ANALYSIS_OVERFLOW_STEP_TITLE)
       /\ (LastCall.templateType = "news" /\ n \notin 1..Len(titles))
            => label = NoString
       /\ IF /\ LastCall.templateType = "analysis"
             /\ n >= 2
             /\ LastCall.companyName # NoString
          THEN Tail(label)
                 = <<LBRACKET>> \o LastCall.companyName \o <<RBRACKET>>
          ELSE Len(label) <= 1

\* the seventh step of an analysis of Moutai: the overflow title and the
\* subject
C26_Witness ==
  /\ IsLabelCall
  /\ LastCall.templateType = "analysis"
  /\ LastCall.stepOrder = 7
  /\ LastCall.result
       = <<ANALYSIS_OVERFLOW_STEP_TITLE, LBRACKET, "Moutai", RBRACKET>>

----------------------------------------------------------------------------
(* C27 *)

\* the last two calls are updates for one item: reasoning_completed, and
\* then a reasoning chunk
ChunkAfterCompleted ==
  /\ Len(calls) >= 2
  /\ IsUpdate
  /\ calls[Len(calls) - 1].op = "update"
  /\ calls[Len(calls) - 1].sseDataList[1].event = "reasoning_completed"
  /\ LastEvent.event = "reasoning"
  /\ \A f \in {"conversation_id", "thread_id", "task_id", "item_id"} :
       calls[Len(calls) - 1].sseDataList[1].data[f] = LastEvent.data[f]

\* C27: a reasoning chunk that follows reasoning_completed for its item
\* finds the record of the item complete and leaves it not complete, its
\* content the former one and the text of the chunk behind it, the item
\* otherwise the same and in its place.
C27_CompletionNotSticky ==
  ChunkAfterCompleted =>
    /\ Len(ItemsOfEvent) = Len(PrevItemsOfEvent) + (IF PositionsOf(PrevItemsOfEvent, LastEvent.data.item_id) = {} THEN 1 ELSE 0)
    /\ \A p \in PositionsOf(PrevItemsOfEvent, LastEvent.data.item_id) :
         HasContent(PrevItemsOfEvent[p]) =>
           /\ JSONParse(PrevItemsOfEvent[p].payload.content).ok
           /\ GetField(JSONParse(PrevItemsOfEvent[p].payload.content).obj,
                       "isComplete") = <<JTRUE>>
           /\ JSONParse(ItemsOfEvent[p].payload.content).ok
           /\ GetField(JSONParse(ItemsOfEvent[p].payload.content).obj,
                       "isComplete") = <<JFALSE>>
           /\ ContentText(JSONParse(ItemsOfEvent[p].payload.content).obj)
                = ContentText(JSONParse(PrevItemsOfEvent[p].payload.content).obj)
                  \o ChunkText(LastEvent)
           /\ ItemsOfEvent[p] = [PrevItemsOfEvent[p] EXCEPT !.payload.content =
                                   ItemsOfEvent[p].payload.content]

\* started, "foo", completed, and then "bar": the record of "foobar", not
\* complete
C27_Witness ==
  /\ ChunkAfterCompleted
  /\ Len(calls) = 4
  /\ calls[1].sseDataList[1].event = "reasoning_started"
  /\ \E p \in PositionsOf(PrevItemsOfEvent, LastEvent.data.item_id) :
       /\ IsCompleteOrFalse(JSONParse(PrevItemsOfEvent[p].payload.content).obj)
            = <<JTRUE>>
       /\ ContentText(JSONParse(ItemsOfEvent[p].payload.content).obj)
            = <<"foo", "bar">>
       /\ IsCompleteOrFalse(JSONParse(ItemsOfEvent[p].payload.content).obj)
            = <<JFALSE>>

----------------------------------------------------------------------------
(* C28 *)

\* the last two calls are the two events of one call of the
\* plan-generation tool, tool_call_started and then tool_call_completed,
\* and no earlier event of the thread had their item_id
PlanCallStartedAndCompleted ==
  /\ Len(calls) >= 2
  /\ \A j \in 1..Len(calls) : calls[j].op = "update"
  /\ calls[Len(calls) - 1].sseDataList[1].event = "tool_call_started"
  /\ LastEvent.event = "tool_call_completed"
  /\ LastEvent.data.payload.tool_name = PLAN_TOOL
  /\ calls[Len(calls) - 1].sseDataList[1].data = LastEvent.data
  /\ \A j \in 1..(Len(calls) - 2) :
       \/ calls[j].sseDataList[1].data.conversation_id
            # LastEvent.data.conversation_id
       \/ calls[j].sseDataList[1].data.thread_id # LastEvent.data.thread_id
       \/ calls[j].sseDataList[1].data.item_id # LastEvent.data.item_id

\* a thread without the items of an item_id
WithoutItem(thread, itemId) ==
  [tasks |-> [j \in 1..Len(thread.tasks) |->
     [thread.tasks[j] EXCEPT !.items =
        SelectSeq(@, LAMBDA item : item.item_id # itemId)]]]

\* the thread tool_call_started found: the one tool_call_completed found,
\* without the item tool_call_started wrote
ThreadBeforeStarted == WithoutItem(PrevThreadOfEvent, LastEvent.data.item_id)

\* the label tool_call_started left in the item
StartedStepLabel ==
  GetStepLabelFromItem(
    PrevItemsOfEvent[CHOOSE p \in PositionsOf(PrevItemsOfEvent, LastEvent.data.item_id) : TRUE])

\* C28: when the two events of a call of the plan-generation tool, with an
\* item_id new to the thread, come to a thread whose planning run holds
\* n >= 1 tool calls, tool_call_started writes the label of ordinal n + 1
\* and tool_call_completed has ordinal 1 and writes the first-step title,
\* a label other than the one tool_call_started wrote.
C28_PlanCallRestartsRun ==
  (PlanCallStartedAndCompleted
     /\ GetPlanningToolItems(ThreadBeforeStarted) # <<>>) =>
    /\ StartedStepLabel =
         BuildPlannedStepLabel(
           Len(GetPlanningToolItems(ThreadBeforeStarted)) + 1,
           DetectCompanyNameInThread(ThreadBeforeStarted,
                                     LastEvent.data.metadata.task_title),
           TemplateOf(ThreadBeforeStarted))
    /\ GetToolStepOrderInThread(PrevThreadOfEvent, LastEvent.data.item_id,
                                LastEvent.data.payload.tool_name) = 1
    /\ WrittenStepLabel = <<TitlesOf(TemplateOf(PrevThreadOfEvent))[1]>>
    /\ WrittenStepLabel # StartedStepLabel

----------------------------------------------------------------------------
(* C29 *)

\* the consumed events of the last call that address conversation d
EventsFor(d) ==
  SelectSeq(LastCall.sseDataList,
            LAMBDA e : /\ e.event \in CONSUMED_EVENTS
                       /\ e.data.conversation_id = d)

\* the reasoning items of conversation d that are complete, with their
\* places
CompleteReasoning(st, d) ==
  {[e EXCEPT !.item = e.item.item_id] :
     e \in {e \in MainEntries(st) :
              /\ e.conversation_id = d
              /\ e.item.component_type = "reasoning"
              /\ e.item.payload.hasContent
              /\ JSONParse(e.item.payload.content).ok
              /\ GetField(JSONParse(e.item.payload.content).obj,
                          "isComplete") = <<JTRUE>>}}

\* C29: a batch for conversation c treats every other conversation d as
\* single updates would: d is what its events of the list, applied one at
\* a time to the store the call was given, make of it, so that the items
\* it held are kept with or without clearHistory and no reasoning item of
\* d is completed but by a reasoning_completed event of the list; a
\* conversation other than c that no event of the list addresses is the
\* one before, or absent as before.
C29_BatchTouchesOnlyItsConversation ==
  IsBatch =>
    \A d \in (DOMAIN prev \cup DOMAIN store) \ {LastCall.conversationId} :
      /\ d \in DOMAIN store <=> (d \in DOMAIN prev \/ EventsFor(d) # <<>>)
      /\ d \in DOMAIN store =>
           /\ store[d] = OneAtATime(prev, EventsFor(d))[d]
           /\ EventsFor(d) = <<>> => store[d] = prev[d]
           /\ \A e \in MainEntries(prev) :
                e.conversation_id = d =>
                  \E f \in MainEntries(store) :
                    /\ f.conversation_id = d
                    /\ f.thread_id = e.thread_id
                    /\ f.task_id = e.task_id
                    /\ f.pos = e.pos
                    /\ f.item.item_id = e.item.item_id
           /\ \A r \in CompleteReasoning(store, d) :
                \/ r \in CompleteReasoning(prev, d)
                \/ \E j \in 1..Len(EventsFor(d)) :
                     /\ EventsFor(d)[j].event = "reasoning_completed"
                     /\ EventsFor(d)[j].data.item_id = r.item

\* a batch that clears c1 brings a chunk to the reasoning item of c2, which
\* keeps its text and stays not complete, and a new thread to c2; c3 is
\* the one before
C29_Witness ==
  /\ IsBatch
  /\ LastCall.clearHistory
  /\ LastCall.conversationId = "c1"
  /\ LastCall.sseDataList # <<>>
  /\ {"c1", "c2", "c3"} \subseteq DOMAIN prev
  /\ prev["c1"] # store["c1"]
  /\ ItemsAt(prev, "c2", "t1", "k1")[1].payload.content
       = RecordOf(<<"foo">>, JFALSE)
  /\ ItemsAt(store, "c2", "t1", "k1")[1].payload.content
       = RecordOf(<<"foo", "bar">>, JFALSE)
  /\ "t2" \in DOMAIN store["c2"].threads
  /\ "t2" \notin DOMAIN prev["c2"].threads
  /\ store["c3"] = prev["c3"]

----------------------------------------------------------------------------
(* C30 *)

\* a store that holds thread t of conversation c of st and nothing else
OnlyThread(st, c, t) ==
  IF c \in DOMAIN st /\ t \in DOMAIN st[c].threads
  THEN MapPut(EmptyStore, c,
              [threads |-> MapPut(EmptyMap, t, st[c].threads[t]),
               sections |-> EmptyMap])
  ELSE EmptyStore

\* the thread of the last event in a store
ThreadOfEvent(st) ==
  st[LastEvent.data.conversation_id].threads[LastEvent.data.thread_id]

\* the last event is for the item of the entry
IsEntryOfEvent(e) ==
  /\ e.conversation_id = LastEvent.data.conversation_id
  /\ e.thread_id = LastEvent.data.thread_id
  /\ e.task_id = LastEvent.data.task_id
  /\ e.item.item_id = LastEvent.data.item_id

\* C30: the thread a tool-call event leaves, the step_label it writes
\* included, is the one the same event leaves in the store that holds the
\* thread of the event, as the call found it, and nothing else: the other
\* threads and conversations have no part in it, and neither has the task
\* the event names.  The event changes no item but its own.
C30_StepLabelFromOwnThread ==
  (IsUpdate /\ IsToolCallEvent(LastEvent)) =>
    /\ ThreadOfEvent(store)
         = ThreadOfEvent(UpdateAgentConversationsStore(
             OnlyThread(prev, LastEvent.data.conversation_id,
                        LastEvent.data.thread_id),
             LastEvent))
    /\ WrittenStepLabel
         = PlannedStepLabel(PrevThreadOfEvent,
                            [LastEvent.data EXCEPT !.task_id = "k9",
                                                   !.role = "user"])
    /\ \A e \in MainEntries(prev) :
         ~IsEntryOfEvent(e) => e \in MainEntries(store)
    /\ SectionEntries(store) = SectionEntries(prev)

\* web_search in thread t1, which names Moutai and holds the plan call,
\* gets the second analysis title with the subject, while thread t2 of the
\* conversation holds a user message with a news marker
C30_Witness ==
  /\ IsUpdate
  /\ IsToolCallEvent(LastEvent)
  /\ LastEvent.data.thread_id = "t1"
  /\ LastEvent.data.conversation_id = "c1"
  /\ "c1" \in DOMAIN prev
  /\ "t2" \in DOMAIN prev["c1"].threads
  /\ UserAsksNews(prev["c1"].threads["t2"])
  /\ WrittenStepLabel
       = <<ANALYSIS_STEP_TITLES[2], LBRACKET, "foo", "Moutai", RBRACKET>>

====
